---------------------------- MODULE Spec2Model ----------------------------
(***************************************************************************)
(* A model of the bounded-execution control plane of Loom-RLM:             *)
(*   - RecursiveSpawnManager   (src/lib/recursive_spawn.py)                *)
(*   - ChunkingStrategy        (src/lib/chunking.py)                       *)
(*   - ComplexityCalculator    (src/lib/complexity.py)                     *)
(*   - LoomRLMValidator        (src/lib/validation.py)                     *)
(* Each component has its own specification (SpawnSpec, ChunkSpec, ...);   *)
(* the variables of the other components stay at their idle values.        *)
(***************************************************************************)
EXTENDS Integers, Sequences, FiniteSets, TLC

VARIABLES
    max_depth,      \* RecursiveSpawnManager.max_depth
    spawn_tree,     \* RecursiveSpawnManager.spawn_tree : task id -> SpawnNode
    root_tasks,     \* RecursiveSpawnManager.root_tasks : set of task ids
    call,           \* the last call made on the manager and what it returned
    config,         \* ChunkingStrategy.config : ChunkingConfig
    prompt,         \* create_chunks' argument
    cpc,            \* where create_chunks is: "idle", "loop" or "done"
    start_char,     \* create_chunks' local start_char
    chunks,         \* create_chunks' local list chunks
    self_chunks,    \* ChunkingStrategy.chunks
    chunk_needed,   \* what should_chunk(prompt) returned, once it was asked
    break_point,    \* a call of _find_break_point: its arguments and result
    tasks,          \* compiled_prompt["tasks"], ComplexityCalculator's input
    task_deps,      \* _calculate_dependency_depth_score's local task_deps
    task_levels,    \* _calculate_graph_depth's local task_levels, the memo
    stack,          \* the activations of get_level
    loop_i,         \* where _calculate_graph_depth's loop over task_deps is
    dpc,            \* where the computation is: "idle", "levels" or "done"
    depth_result,   \* what the computation ended in: a score or an exception
    file_path,      \* validate_file_path's argument
    path_type,      \* validate_file_path's argument
    path_result,    \* what validate_file_path returned
    validator,      \* the validator path_result is of
    files,          \* validate_files_changed's argument
    base_path,      \* UnboundedOutputHandler.base_path
    parts,          \* UnboundedOutputHandler.parts
    out_task_id,    \* split_output's and create_index_file's task_id
    out_content,    \* split_output's content
    created_files,  \* the paths split_output returned
    index_file,     \* what create_index_file returned
    opc,            \* "idle", or "split" after split_output
    splits,         \* how many times split_output has been called
    chunk_results,  \* merge_chunk_results' argument, a list of dicts
    merged_result,  \* what merge_chunk_results returned or raised
    merges,         \* how many times the chunk results have been merged
    original_len,   \* len(compiled_prompt["original"]), calculate's input
    complexity,     \* what calculate returned or raised
    patch,          \* validate_patch's argument
    patch_result    \* what validate_patch returned or raised

spawnVars == <<max_depth, spawn_tree, root_tasks, call>>

chunkVars ==
    <<config, prompt, cpc, start_char, chunks, self_chunks, chunk_needed,
      break_point>>

depthVars ==
    <<tasks, task_deps, task_levels, stack, loop_i, dpc, depth_result>>

pathVars == <<file_path, path_type, path_result, validator, files>>

outputVars ==
    <<base_path, parts, out_task_id, out_content, created_files, index_file,
      opc, splits>>

mergeVars == <<chunk_results, merged_result, merges>>

complexityVars == <<original_len, complexity>>

patchVars == <<patch, patch_result>>

vars ==
    <<spawnVars, chunkVars, depthVars, pathVars, outputVars, mergeVars,
      complexityVars, patchVars>>

\* what each component is not: its actions leave these unchanged
notSpawnVars ==
    <<chunkVars, depthVars, pathVars, outputVars, mergeVars,
      complexityVars, patchVars>>

notChunkVars ==
    <<spawnVars, depthVars, pathVars, outputVars, mergeVars,
      complexityVars, patchVars>>

notDepthVars ==
    <<spawnVars, chunkVars, pathVars, outputVars, mergeVars,
      complexityVars, patchVars>>

notPathVars ==
    <<spawnVars, chunkVars, depthVars, outputVars, mergeVars,
      complexityVars, patchVars>>

notOutputVars ==
    <<spawnVars, chunkVars, depthVars, pathVars, mergeVars,
      complexityVars, patchVars>>

notComplexityVars ==
    <<spawnVars, chunkVars, depthVars, pathVars, outputVars, mergeVars, patchVars>>

notPatchVars ==
    <<spawnVars, chunkVars, depthVars, pathVars, outputVars, mergeVars,
      complexityVars>>

notMergeVars ==
    <<spawnVars, chunkVars, depthVars, pathVars, outputVars,
      complexityVars, patchVars>>

(***************************************************************************)
(* Bounds of the model.                                                    *)
(***************************************************************************)
\* a register_spawn that would succeed is not called once the children lists
\* of the tree hold this many ids together
MaxSpawns == 2
\* the longest prompt of ChunkSpec, in characters
MaxTextLen == 10
\* the most delimiter characters in a prompt
MaxDelims == 1
\* the largest chunk_size_tokens of ChunkSpec
MaxChunkTokens == 6
\* create_chunks' loop is not followed beyond this many chunks
MaxChunks == 6
\* the most tasks in a compiled prompt
MaxTasks == 2
\* the longest depends_on list of a task
MaxDeps == 2
\* the interpreter's recursion limit: the most activations of get_level at once
RecursionLimit == 6
\* the most chunk results merged at once
MaxMergeChunks == 2
\* the most tasks of a chunk result
MaxMergeTasks == 2
\* how many times the same chunk results are merged
MaxMerges == 2
\* the most tasks of the graphs taken in every order
MaxGraphTasks == 3
\* how many times split_output is called on one handler
MaxSplits == 2
\* the most fragments in a path of PathSpec
MaxFragments == 3

(***************************************************************************)
(* Texts.  A text is its length and the delimiter characters in it, by     *)
(* position (0-based); every other position holds a letter.  The chunker   *)
(* looks at nothing but the delimiters and the offsets.                    *)
(***************************************************************************)
Delims == {" ", "\n", ".", ","}

Letter == "a"

EmptyText == [len |-> 0, sp |-> <<>>]

CharAt(t, i) == IF i \in DOMAIN t.sp THEN t.sp[i] ELSE Letter

Max(a, b) == IF a >= b THEN a ELSE b

Min(a, b) == IF a <= b THEN a ELSE b

Abs(a) == IF a < 0 THEN 0 - a ELSE a

\* a slice index as Python clips it: negative indices count from the end
SliceIndex(n, i) == IF i < 0 THEN Max(n + i, 0) ELSE Min(i, n)

\* t[i:j]
Slice(t, i, j) ==
    LET lo == SliceIndex(t.len, i)
        hi == SliceIndex(t.len, j)
    IN  IF hi <= lo
        THEN EmptyText
        ELSE [len |-> hi - lo,
              sp |-> [k \in {q - lo : q \in {x \in DOMAIN t.sp : lo <= x /\ x < hi}}
                        |-> t.sp[k + lo]]]

\* s + t
Concat(s, t) ==
    [len |-> s.len + t.len,
     sp |-> [k \in (DOMAIN s.sp) \cup {q + s.len : q \in DOMAIN t.sp}
               |-> IF k < s.len THEN s.sp[k] ELSE t.sp[k - s.len]]]

RECURSIVE MulDivPair(_, _, _)
\* <<q, m>> with a * r = q * c + m and 0 <= m < c, for a >= 0, 0 <= r < c,
\* by halving a so that no intermediate product leaves the machine integers
MulDivPair(a, r, c) ==
    IF a = 0 THEN <<0, 0>>
    ELSE LET h == MulDivPair(a \div 2, r, c)
             m == 2 * h[2] + (a % 2) * r
         IN  <<2 * h[1] + (m \div c), m % c>>

\* floor(a * b / c) for a, b >= 0 and c > 0
MulDiv(a, b, c) == a * (b \div c) + MulDivPair(a, b % c, c)[1]

(***************************************************************************)
(* CostTracker.estimate_tokens and ChunkingStrategy                        *)
(***************************************************************************)
\* CostTracker.CHAR_TO_TOKEN_MULTIPLIER = 1.3, as the fraction 13 / 10
MultiplierNum == 13

MultiplierDen == 10

\* int(len(text) / 1.3)
estimate_tokens(text) == MulDiv(text.len, MultiplierDen, MultiplierNum)

CHUNKING_THRESHOLD_TOKENS == 50000

DefaultChunkSizeTokens == 50000

DefaultOverlapTokens == 5000

DefaultConfig == [chunk_size_tokens |-> DefaultChunkSizeTokens,
                  overlap_tokens |-> DefaultOverlapTokens]

\* should_chunk with the threshold itself counted as over it
should_chunk_AtThreshold(text) ==
    estimate_tokens(text) >= CHUNKING_THRESHOLD_TOKENS

should_chunk(text) == estimate_tokens(text) > CHUNKING_THRESHOLD_TOKENS

\* int(tokens * chars_per_token), where chars_per_token is
\* total_chars / total_tokens, or 1.3 when the estimate is zero
TokensToChars(tokens, text) ==
    IF estimate_tokens(text) > 0
    THEN MulDiv(tokens, text.len, estimate_tokens(text))
    ELSE MulDiv(tokens, MultiplierNum, MultiplierDen)

chunk_size_chars(cfg, text) == TokensToChars(cfg.chunk_size_tokens, text)

overlap_chars(cfg, text) == TokensToChars(cfg.overlap_tokens, text)

\* break_patterns, in priority order: the pattern's characters and the offset
\* added to a match's start
break_patterns ==
    << [pat |-> <<"\n", "\n">>, offset |-> 2],
       [pat |-> <<"\n">>,       offset |-> 1],
       [pat |-> <<".", " ">>,   offset |-> 2],
       [pat |-> <<",", " ">>,   offset |-> 2],
       [pat |-> <<" ">>,        offset |-> 1] >>

RECURSIVE RunBefore(_, _, _)
\* how many consecutive characters c stand immediately before position i of r
RunBefore(r, c, i) ==
    IF i - 1 \in DOMAIN r.sp /\ r.sp[i - 1] = c
    THEN 1 + RunBefore(r, c, i - 1)
    ELSE 0

\* the starts of the matches re.finditer(pattern, region) yields: every
\* occurrence, scanned left to right without overlap (an occurrence of "\n\n"
\* that starts inside the previous match is skipped)
MatchStarts(region, pat) ==
    IF Len(pat) = 1
    THEN {i \in DOMAIN region.sp : region.sp[i] = pat[1]}
    ELSE {i \in DOMAIN region.sp :
            /\ region.sp[i] = pat[1]
            /\ i + 1 \in DOMAIN region.sp
            /\ region.sp[i + 1] = pat[2]
            /\ (pat[1] = pat[2] => RunBefore(region, pat[1], i) % 2 = 0)}

\* ScanPattern with the best of an earlier pattern always kept
ScanPattern_KeepEarlier(region, relative_target, p, best) ==
    LET positions == {m + p.offset : m \in MatchStarts(region, p.pat)}
    IN  IF positions = {} \/ best.found
        THEN best
        ELSE LET d == CHOOSE x \in {Abs(q - relative_target) : q \in positions} :
                         \A q \in positions : x <= Abs(q - relative_target)
                 pos == CHOOSE q \in positions :
                          /\ Abs(q - relative_target) = d
                          /\ \A q2 \in positions :
                                Abs(q2 - relative_target) = d => q <= q2
             IN  [found |-> TRUE, pos |-> pos, distance |-> d]

\* best_pos and best_distance after the scan of one pattern's matches, started
\* from best (found = FALSE stands for best_pos = None, best_distance = inf):
\* a match replaces the best only when strictly closer, so the leftmost of the
\* closest matches is kept, and the best of an earlier pattern is kept unless a
\* match of this one is strictly closer
ScanPattern(region, relative_target, p, best) ==
    LET positions == {m + p.offset : m \in MatchStarts(region, p.pat)}
    IN  IF positions = {}
        THEN best
        ELSE LET d == CHOOSE x \in {Abs(q - relative_target) : q \in positions} :
                         \A q \in positions : x <= Abs(q - relative_target)
                 pos == CHOOSE q \in positions :
                          /\ Abs(q - relative_target) = d
                          /\ \A q2 \in positions :
                                Abs(q2 - relative_target) = d => q <= q2
             IN  IF ~best.found \/ d < best.distance
                 THEN [found |-> TRUE, pos |-> pos, distance |-> d]
                 ELSE best

RECURSIVE BreakFrom(_, _, _, _, _, _)
\* the for loop over break_patterns from pattern k on
BreakFrom(region, search_start, target_pos, max_search, k, best) ==
    IF k > Len(break_patterns)
    THEN target_pos
    ELSE LET b == ScanPattern(region, target_pos - search_start,
                              break_patterns[k], best)
         IN  IF b.found /\ b.distance < max_search \div 4
             THEN search_start + b.pos
             ELSE BreakFrom(region, search_start, target_pos, max_search, k + 1, b)

find_break_point(text, target_pos, max_search) ==
    LET search_start == Max(0, target_pos - max_search \div 2)
        search_end == Min(text.len, target_pos + max_search \div 2)
        search_region == Slice(text, search_start, search_end)
    IN  BreakFrom(search_region, search_start, target_pos, max_search, 1,
                  [found |-> FALSE, pos |-> 0, distance |-> 0])

\* end_char of the loop iteration that starts at start
EndChar(cfg, text, start) ==
    LET naive == Min(start + chunk_size_chars(cfg, text), text.len)
    IN  IF naive < text.len
        THEN find_break_point(text, naive, chunk_size_chars(cfg, text))
        ELSE naive

OverlapWithNext_Tokens(cfg, text, end) ==
    IF end < text.len THEN cfg.overlap_tokens ELSE 0

\* overlap_with_next of the chunk that ends at end
OverlapWithNext(cfg, text, end) ==
    IF end < text.len THEN overlap_chars(cfg, text) ELSE 0

\* the Chunk the iteration builds
Chunk(chunk_id, text, start, end, overlap) ==
    LET content == Slice(text, start, end)
    IN  [chunk_id |-> chunk_id,
         content |-> content,
         start_char |-> start,
         end_char |-> end,
         overlap_with_next |-> overlap,
         estimated_tokens |-> estimate_tokens(content),
         char_count |-> content.len,
         is_first |-> (chunk_id = 0),
         is_last |-> (end >= text.len)]

\* create_chunks up to its loop: chunks = [], start_char = 0
CreateChunksCall ==
    /\ cpc = "idle"
    /\ cpc' = "loop"
    /\ start_char' = 0
    /\ chunks' = <<>>
    /\ UNCHANGED <<config, prompt, self_chunks, chunk_needed, break_point,
                   notChunkVars>>

\* start_char = end_char - overlap_with_next
NextStart_NoOverlap(cfg, text, end, overlap_with_next) == end

NextStart(cfg, text, end, overlap_with_next) == end - overlap_with_next

\* one iteration of  while start_char < total_chars
ChunkLoopIteration ==
    /\ cpc = "loop"
    /\ start_char < prompt.len
    /\ Len(chunks) < MaxChunks
    /\ LET end_char == EndChar(config, prompt, start_char)
           overlap_with_next == OverlapWithNext(config, prompt, end_char)
       IN  /\ chunks' = Append(chunks, Chunk(Len(chunks), prompt, start_char,
                                             end_char, overlap_with_next))
           /\ start_char' = NextStart(config, prompt, end_char, overlap_with_next)
    /\ UNCHANGED <<config, prompt, cpc, self_chunks, chunk_needed, break_point,
                   notChunkVars>>

\* the loop's exit: self.chunks = chunks; return chunks
CreateChunksReturn ==
    /\ cpc = "loop"
    /\ ~(start_char < prompt.len)
    /\ self_chunks' = chunks
    /\ cpc' = "done"
    /\ UNCHANGED <<config, prompt, start_char, chunks, chunk_needed,
                   break_point, notChunkVars>>

\* _find_break_point has not been called
NoBreak == [called |-> FALSE, target_pos |-> 0, max_search |-> 0, break_pos |-> 0]

\* self._find_break_point(prompt, target_pos, max_search)
FindBreakPoint ==
    /\ cpc = "idle"
    /\ ~break_point.called
    /\ break_point' =
          [break_point EXCEPT
             !.called = TRUE,
             !.break_pos = find_break_point(prompt, break_point.target_pos,
                                            break_point.max_search)]
    /\ UNCHANGED <<config, prompt, cpc, start_char, chunks, self_chunks,
                   chunk_needed, notChunkVars>>

\* should_chunk has not been asked
NotAsked == [asked |-> FALSE, answer |-> FALSE]

\* should_chunk(prompt), asked before the prompt is chunked
ShouldChunk ==
    /\ cpc = "idle"
    /\ chunk_needed = NotAsked
    /\ chunk_needed' = [asked |-> TRUE, answer |-> should_chunk(prompt)]
    /\ UNCHANGED <<config, prompt, cpc, start_char, chunks, self_chunks,
                   break_point, notChunkVars>>

\* the texts with a length in lens and at most MaxDelims delimiters, taken
\* from D and standing at positions of P
Texts(lens, P, D) ==
    UNION { UNION { { [len |-> l, sp |-> f] : f \in [Q -> D] }
                    : Q \in {R \in SUBSET (P \cap (0..(l - 1))) :
                                Cardinality(R) <= MaxDelims} }
            : l \in lens }

\* the delimiters of ChunkSpec's prompts
ChunkDelims == {" ", "\n"}

\* the configurations of ChunkSpec
ChunkConfigs ==
    UNION { {[chunk_size_tokens |-> c, overlap_tokens |-> o] : o \in 0..(c - 1)}
            : c \in 1..MaxChunkTokens }

(***************************************************************************)
(* RecursiveSpawnManager                                                   *)
(***************************************************************************)
\* RecursiveSpawnManager.__init__'s default max_depth; managers are constructed
\* with every max_depth from 0 to the default
DefaultMaxDepth == 2
TaskIds == {"t1", "t2", "t3"}
\* the role callers pass to register_spawn
Roles == {"coder"}
\* the role callers pass to register_root_task
RootRoles == {"reviewer"}
\* the statuses callers pass to update_status
StatusInputs == {"pending", "running"}
\* Python's None for SpawnNode.parent_task_id
None == "None"

\* SpawnNode(task_id, parent_task_id, depth, role): children and status take
\* their dataclass defaults ([] and "pending"); spawned_at is a timestamp only
SpawnNode(task_id, parent_task_id, depth, role) ==
    [task_id |-> task_id, parent_task_id |-> parent_task_id, depth |-> depth,
     role |-> role, children |-> <<>>, status |-> "pending"]

\* d[k] = v on a Python dict
DictSet(d, k, v) == [x \in (DOMAIN d) \cup {k} |-> IF x = k THEN v ELSE d[x]]

NoCall == [op |-> "none"]

RECURSIVE ChildCount(_)
\* how many ids the children lists of the nodes with ids in S hold together
ChildCount(S) ==
    IF S = {} THEN 0
    ELSE LET t == CHOOSE x \in S : TRUE
         IN  Len(spawn_tree[t].children) + ChildCount(S \ {t})

can_spawn_child_OffByOne(parent_task_id) ==
    IF parent_task_id \notin DOMAIN spawn_tree
    THEN FALSE
    ELSE IF spawn_tree[parent_task_id].depth > max_depth
         THEN FALSE
         ELSE TRUE

can_spawn_child(parent_task_id) ==
    IF parent_task_id \notin DOMAIN spawn_tree
    THEN FALSE
    ELSE IF spawn_tree[parent_task_id].depth >= max_depth
         THEN FALSE
         ELSE TRUE

\* the tree after a successful register_spawn.  parent_node is the object that
\* was in the tree before the child was stored: when child_task_id is the
\* parent's own id the store replaces that object, and the append that follows
\* lands on the replaced object, which the tree no longer holds.
SpawnedTree_DepthOfParent(parent_task_id, child_task_id, role) ==
    LET parent_node == spawn_tree[parent_task_id]
        child_node == SpawnNode(child_task_id, parent_task_id,
                                parent_node.depth, role)
        stored == DictSet(spawn_tree, child_task_id, child_node)
    IN  IF child_task_id = parent_task_id
        THEN stored
        ELSE [stored EXCEPT ![parent_task_id].children = Append(@, child_task_id)]

SpawnedTree_ResetChildren(parent_task_id, child_task_id, role) ==
    LET parent_node == spawn_tree[parent_task_id]
        child_node == SpawnNode(child_task_id, parent_task_id,
                                parent_node.depth + 1, role)
        stored == DictSet(spawn_tree, child_task_id, child_node)
    IN  IF child_task_id = parent_task_id
        THEN stored
        ELSE [stored EXCEPT ![parent_task_id].children = <<child_task_id>>]

SpawnedTree_Prepend(parent_task_id, child_task_id, role) ==
    LET parent_node == spawn_tree[parent_task_id]
        child_node == SpawnNode(child_task_id, parent_task_id,
                                parent_node.depth + 1, role)
        stored == DictSet(spawn_tree, child_task_id, child_node)
    IN  IF child_task_id = parent_task_id
        THEN stored
        ELSE [stored EXCEPT ![parent_task_id].children = <<child_task_id>> \o @]

SpawnedTree(parent_task_id, child_task_id, role) ==
    LET parent_node == spawn_tree[parent_task_id]
        child_node == SpawnNode(child_task_id, parent_task_id,
                                parent_node.depth + 1, role)
        stored == DictSet(spawn_tree, child_task_id, child_node)
    IN  IF child_task_id = parent_task_id
        THEN stored
        ELSE [stored EXCEPT ![parent_task_id].children = Append(@, child_task_id)]

\* register_root_task without its test: the node is stored whether or not the
\* id is in the tree
register_root_task_Overwrite(task_id, role) ==
    /\ call' = [op |-> "register_root_task", task_id |-> task_id, role |-> role]
    /\ spawn_tree' = DictSet(spawn_tree, task_id,
                             SpawnNode(task_id, None, 0, role))
    /\ root_tasks' = root_tasks \cup {task_id}
    /\ UNCHANGED max_depth

register_root_task(task_id, role) ==
    /\ call' = [op |-> "register_root_task", task_id |-> task_id, role |-> role]
    /\ IF task_id \notin DOMAIN spawn_tree
       THEN /\ spawn_tree' = DictSet(spawn_tree, task_id,
                                     SpawnNode(task_id, None, 0, role))
            /\ root_tasks' = root_tasks \cup {task_id}
       ELSE UNCHANGED <<spawn_tree, root_tasks>>
    /\ UNCHANGED max_depth

register_spawn(parent_task_id, child_task_id, role) ==
    /\ can_spawn_child(parent_task_id) => ChildCount(DOMAIN spawn_tree) < MaxSpawns
    /\ IF parent_task_id \notin DOMAIN spawn_tree
       THEN /\ call' = [op |-> "register_spawn", parent_task_id |-> parent_task_id,
                        child_task_id |-> child_task_id, role |-> role,
                        ret |-> FALSE]
            /\ UNCHANGED <<spawn_tree, root_tasks>>
       ELSE IF ~can_spawn_child(parent_task_id)
       THEN /\ call' = [op |-> "register_spawn", parent_task_id |-> parent_task_id,
                        child_task_id |-> child_task_id, role |-> role,
                        ret |-> FALSE]
            /\ UNCHANGED <<spawn_tree, root_tasks>>
       ELSE /\ call' = [op |-> "register_spawn", parent_task_id |-> parent_task_id,
                        child_task_id |-> child_task_id, role |-> role,
                        ret |-> TRUE]
            /\ spawn_tree' = SpawnedTree(parent_task_id, child_task_id, role)
            /\ UNCHANGED root_tasks
    /\ UNCHANGED max_depth

\* update_status that sets the status of every node
update_status_EveryNode(task_id, status) ==
    /\ call' = [op |-> "update_status", task_id |-> task_id, status |-> status]
    /\ IF task_id \in DOMAIN spawn_tree
       THEN spawn_tree' = [t \in DOMAIN spawn_tree |->
                              [spawn_tree[t] EXCEPT !.status = status]]
       ELSE UNCHANGED spawn_tree
    /\ UNCHANGED <<max_depth, root_tasks>>

update_status(task_id, status) ==
    /\ call' = [op |-> "update_status", task_id |-> task_id, status |-> status]
    /\ IF task_id \in DOMAIN spawn_tree
       THEN spawn_tree' = [spawn_tree EXCEPT ![task_id].status = status]
       ELSE UNCHANGED spawn_tree
    /\ UNCHANGED <<max_depth, root_tasks>>

\* path as it is, not reversed
Reversed_Not(s) == s

\* list(reversed(path))
Reversed(s) == [i \in 1..Len(s) |-> s[Len(s) + 1 - i]]

RECURSIVE WalkParents(_, _, _)
\* the while loop of get_spawn_path, with no more than fuel appends to path.  The
\* loop changes nothing of the tree, so once it has appended more ids than the
\* tree has nodes it has been at some node twice and never ends: no return.
WalkParents(current_id, path, fuel) ==
    IF current_id = None THEN [returns |-> TRUE, path |-> Reversed(path)]
    ELSE IF fuel = 0 THEN [returns |-> FALSE, path |-> <<>>]
    ELSE WalkParents(spawn_tree[current_id].parent_task_id,
                     Append(path, current_id), fuel - 1)

get_spawn_path(task_id) ==
    /\ LET r == IF task_id \notin DOMAIN spawn_tree
                THEN [returns |-> TRUE, path |-> <<>>]
                ELSE WalkParents(task_id, <<>>,
                                 Cardinality(DOMAIN spawn_tree) + 1)
       IN  call' = [op |-> "get_spawn_path", task_id |-> task_id,
                    returns |-> r.returns, path |-> r.path]
    /\ UNCHANGED <<max_depth, spawn_tree, root_tasks>>

RegisterRootTask ==
    /\ \E t \in TaskIds, r \in RootRoles : register_root_task(t, r)
    /\ UNCHANGED notSpawnVars

RegisterSpawn ==
    /\ \E p \in TaskIds, c \in TaskIds, r \in Roles : register_spawn(p, c, r)
    /\ UNCHANGED notSpawnVars

UpdateStatus ==
    /\ \E t \in TaskIds, s \in StatusInputs : update_status(t, s)
    /\ UNCHANGED notSpawnVars

GetSpawnPath ==
    /\ \E t \in TaskIds : get_spawn_path(t)
    /\ UNCHANGED notSpawnVars

\* validate_spawn_request's valid_roles
valid_roles ==
    {"researcher", "architect", "coder", "reviewer", "data_analyst",
     "documenter", "debugger"}

\* the roles callers ask validate_spawn_request about: one of valid_roles and
\* one that is not
RequestedRoles == {"coder", "hacker"}

\* validate_spawn_request without its test for a duplicate task id
validate_spawn_request_NoDuplicateTest(parent_task_id, child_task_id, role) ==
    IF parent_task_id \notin DOMAIN spawn_tree
    THEN [valid |-> FALSE, error |-> "Parent task not found in spawn tree"]
    ELSE IF ~can_spawn_child(parent_task_id)
    THEN [valid |-> FALSE, error |-> "Cannot spawn at depth"]
    ELSE IF role \notin valid_roles
    THEN [valid |-> FALSE, error |-> "Invalid role"]
    ELSE [valid |-> TRUE, error |-> ""]

\* validate_spawn_request's (is_valid, error_message), the message without
\* the ids and numbers formatted into it
validate_spawn_request(parent_task_id, child_task_id, role) ==
    IF parent_task_id \notin DOMAIN spawn_tree
    THEN [valid |-> FALSE, error |-> "Parent task not found in spawn tree"]
    ELSE IF ~can_spawn_child(parent_task_id)
    THEN [valid |-> FALSE, error |-> "Cannot spawn at depth"]
    ELSE IF child_task_id \in DOMAIN spawn_tree
    THEN [valid |-> FALSE, error |-> "Task ID already exists"]
    ELSE IF role \notin valid_roles
    THEN [valid |-> FALSE, error |-> "Invalid role"]
    ELSE [valid |-> TRUE, error |-> ""]

\* a caller asks validate_spawn_request about a spawn
ValidateSpawnRequest ==
    /\ \E p \in TaskIds, c \in TaskIds, r \in RequestedRoles :
          LET v == validate_spawn_request(p, c, r)
          IN  call' = [op |-> "validate_spawn_request", parent_task_id |-> p,
                       child_task_id |-> c, role |-> r,
                       valid |-> v.valid, error |-> v.error]
    /\ UNCHANGED <<max_depth, spawn_tree, root_tasks, notSpawnVars>>

\* the pre-validating caller: register_spawn(p, c, r) right after
\* validate_spawn_request(p, c, r) returned valid
RegisterValidatedSpawn ==
    /\ call.op = "validate_spawn_request"
    /\ call.valid
    /\ register_spawn(call.parent_task_id, call.child_task_id, call.role)
    /\ UNCHANGED notSpawnVars

(***************************************************************************)
(* ComplexityCalculator: the dependency-depth factor of calculate.         *)
(* _calculate_graph_depth's nested get_level is recursive; its activations *)
(* are the frames of stack, the innermost last.  A frame is the task id,   *)
(* where the activation is ("enter": at its first line, "max": inside the  *)
(* max() over the dependencies), the index in deps of the next dependency  *)
(* the generator will look at, and the levels the generator has yielded.   *)
(***************************************************************************)
\* the ids tasks have, and the ids a depends_on list names: "x" is the id of
\* no task
KnownIds == {"a", "b"}

DepIds == KnownIds \cup {"x"}

\* depends_on lists: up to MaxDeps ids, none twice
DepLists ==
    UNION {{s \in [1..n -> DepIds] : \A i, j \in 1..n : i # j => s[i] # s[j]}
           : n \in 0..MaxDeps}

\* compiled_prompt["tasks"]: up to MaxTasks tasks
TaskLists ==
    UNION {[1..n -> [id : KnownIds, depends_on : DepLists]] : n \in 0..MaxTasks}

\* a dict, with its keys in insertion order
EmptyDict == [keys |-> <<>>, val |-> <<>>]

RECURSIVE BuildTaskDeps(_, _)
\* task_deps = {}; for task in tasks: task_deps[task.get("id")] = depends_on
\* (the first n tasks)
BuildTaskDeps(ts, n) ==
    IF n = 0 THEN EmptyDict
    ELSE LET d == BuildTaskDeps(ts, n - 1)
             t == ts[n]
         IN  [keys |-> IF t.id \in DOMAIN d.val THEN d.keys
                       ELSE Append(d.keys, t.id),
              val  |-> DictSet(d.val, t.id, t.depends_on)]

NoDepthResult == [kind |-> "none"]

\* the score of a depth, in tenths
DepthScore(depth) ==
    IF depth <= 1 THEN 0
    ELSE IF depth = 2 THEN 3
    ELSE IF depth = 3 THEN 6
    ELSE IF depth = 4 THEN 8
    ELSE 10

SetMax(S) == CHOOSE m \in S : \A x \in S : x <= m

Frame(task_id) == [task_id |-> task_id, pc |-> "enter", i |-> 1, yielded |-> {}]

\* task_deps.get(task_id, [])
DepsOf(task_id) ==
    IF task_id \in DOMAIN task_deps.val THEN task_deps.val[task_id] ELSE <<>>

\* the indexes, from i on, of the dependencies that pass "if dep in task_deps"
KnownFrom(deps, i) == {j \in i..Len(deps) : deps[j] \in DOMAIN task_deps.val}

\* the stack after its innermost activation returns v: the caller's generator
\* yields v
Returned(stk, v) ==
    LET n == Len(stk)
    IN  IF n = 1 THEN <<>>
        ELSE [SubSeq(stk, 1, n - 1) EXCEPT
                 ![n - 1].yielded = stk[n - 1].yielded \cup {v}]

\* _calculate_dependency_depth_score up to the call of _calculate_graph_depth,
\* and that up to its loop
CalculateCall ==
    /\ dpc = "idle"
    /\ IF tasks = <<>>
       THEN /\ depth_result' = [kind |-> "score", score |-> 0,
                                reason |-> "No tasks to analyze"]
            /\ dpc' = "done"
            /\ UNCHANGED <<task_deps, task_levels, stack, loop_i>>
       ELSE /\ task_deps' = BuildTaskDeps(tasks, Len(tasks))
            /\ task_levels' = <<>>
            /\ stack' = <<>>
            /\ loop_i' = 1
            /\ dpc' = "levels"
            /\ UNCHANGED depth_result
    /\ UNCHANGED tasks
    /\ UNCHANGED notDepthVars

\* for task_id in task_deps: get_level(task_id)
GetLevelCall ==
    /\ dpc = "levels"
    /\ stack = <<>>
    /\ loop_i <= Len(task_deps.keys)
    /\ stack' = <<Frame(task_deps.keys[loop_i])>>
    /\ loop_i' = loop_i + 1
    /\ UNCHANGED <<tasks, task_deps, task_levels, dpc, depth_result>>
    /\ UNCHANGED notDepthVars

\* get_level from its first line to the max(): the memo, and a task with no
\* dependencies
GetLevelEnter ==
    /\ dpc = "levels"
    /\ stack # <<>>
    /\ LET n    == Len(stack)
           top  == stack[n]
           deps == DepsOf(top.task_id)
       IN  /\ top.pc = "enter"
           /\ IF top.task_id \in DOMAIN task_levels
              THEN /\ stack' = Returned(stack, task_levels[top.task_id])
                   /\ UNCHANGED task_levels
              ELSE IF deps = <<>>
              THEN /\ task_levels' = DictSet(task_levels, top.task_id, 1)
                   /\ stack' = Returned(stack, 1)
              ELSE /\ stack' = [stack EXCEPT ![n].pc = "max"]
                   /\ UNCHANGED task_levels
    /\ UNCHANGED <<tasks, task_deps, loop_i, dpc, depth_result>>
    /\ UNCHANGED notDepthVars

\* the generator of max() reaches its next dependency that is a task, and calls
\* get_level on it; the interpreter refuses an activation beyond its recursion
\* limit with RecursionError, which nothing catches
GetLevelNextDep ==
    /\ dpc = "levels"
    /\ stack # <<>>
    /\ LET n    == Len(stack)
           top  == stack[n]
           deps == DepsOf(top.task_id)
           K    == KnownFrom(deps, top.i)
       IN  /\ top.pc = "max"
           /\ K # {}
           /\ LET j == CHOOSE k \in K : \A l \in K : k <= l
              IN  IF n >= RecursionLimit
                  THEN /\ depth_result' = [kind |-> "RecursionError"]
                       /\ dpc' = "done"
                       /\ stack' = <<>>
                  ELSE /\ stack' = Append([stack EXCEPT ![n].i = j + 1],
                                          Frame(deps[j]))
                       /\ UNCHANGED <<dpc, depth_result>>
    /\ UNCHANGED <<tasks, task_deps, task_levels, loop_i>>
    /\ UNCHANGED notDepthVars

\* the generator is exhausted: max() of what it yielded, which raises
\* ValueError if it yielded nothing; the level is stored and returned
GetLevelMax ==
    /\ dpc = "levels"
    /\ stack # <<>>
    /\ LET n    == Len(stack)
           top  == stack[n]
           deps == DepsOf(top.task_id)
       IN  /\ top.pc = "max"
           /\ KnownFrom(deps, top.i) = {}
           /\ IF top.yielded = {}
              THEN /\ depth_result' = [kind |-> "ValueError"]
                   /\ dpc' = "done"
                   /\ stack' = <<>>
                   /\ UNCHANGED task_levels
              ELSE LET max_dep_level == SetMax(top.yielded)
                   IN  /\ task_levels' = DictSet(task_levels, top.task_id,
                                                 max_dep_level + 1)
                       /\ stack' = Returned(stack, max_dep_level + 1)
                       /\ UNCHANGED <<dpc, depth_result>>
    /\ UNCHANGED <<tasks, task_deps, loop_i>>
    /\ UNCHANGED notDepthVars

\* the loop is over: _calculate_graph_depth returns the largest level, and
\* _calculate_dependency_depth_score the score of that depth
GraphDepthReturn ==
    /\ dpc = "levels"
    /\ stack = <<>>
    /\ loop_i > Len(task_deps.keys)
    /\ LET depth == IF DOMAIN task_levels # {}
                    THEN SetMax({task_levels[t] : t \in DOMAIN task_levels})
                    ELSE 1
       IN  depth_result' = [kind |-> "score", score |-> DepthScore(depth),
                            depth |-> depth]
    /\ dpc' = "done"
    /\ UNCHANGED <<tasks, task_deps, task_levels, stack, loop_i>>
    /\ UNCHANGED notDepthVars

(***************************************************************************)
(* LoomRLMValidator.validate_file_path.  A path is the sequence of its     *)
(* characters.                                                             *)
(***************************************************************************)
UpperCase == <<"A", "B", "C", "D", "E", "F", "G", "H", "I", "J", "K", "L", "M",
              "N", "O", "P", "Q", "R", "S", "T", "U", "V", "W", "X", "Y", "Z">>

LowerCase == <<"a", "b", "c", "d", "e", "f", "g", "h", "i", "j", "k", "l", "m",
              "n", "o", "p", "q", "r", "s", "t", "u", "v", "w", "x", "y", "z">>

Digits == {"0", "1", "2", "3", "4", "5", "6", "7", "8", "9"}

\* the characters of the class [a-z_]
LowerOrUnderscore == {LowerCase[i] : i \in DOMAIN LowerCase} \cup {"_"}

\* the lower case of each upper-case letter
ToLower ==
    [c \in {UpperCase[k] : k \in DOMAIN UpperCase} |->
        LowerCase[CHOOSE k \in DOMAIN UpperCase : UpperCase[k] = c]]

\* str.lower()
Lower(s) ==
    [i \in DOMAIN s |-> IF s[i] \in DOMAIN ToLower THEN ToLower[s[i]] ELSE s[i]]

\* sub in s
StrContains(s, sub) ==
    \E i \in 0..(Len(s) - Len(sub)) : SubSeq(s, i + 1, i + Len(sub)) = sub

\* s.startswith(p)
StartsWith(s, p) == Len(p) <= Len(s) /\ SubSeq(s, 1, Len(p)) = p

DotDot == <<".", ".">>

dangerous_prefixes ==
    <<<<"/", "e", "t", "c">>,
      <<"/", "u", "s", "r">>,
      <<"/", "v", "a", "r">>,
      <<"~", "/">>,
      <<"/", "S", "y", "s", "t", "e", "m">>,
      <<"/", "L", "i", "b", "r", "a", "r", "y">>>>

forbidden_patterns ==
    <<<<".", "c", "l", "a", "u", "d", "e", "/">>,
      <<".", "g", "i", "t", "h", "u", "b", "/", "w", "o", "r", "k", "f", "l", "o", "w", "s", "/">>,
      <<".", "g", "i", "t", "l", "a", "b", "-", "c", "i">>,
      <<"c", "i", "/", "c", "d">>,
      <<".", "e", "n", "v">>,
      <<"c", "r", "e", "d", "e", "n", "t", "i", "a", "l", "s">>>>

StatePrefix == <<"l", "o", "o", "m", "-", "r", "l", "m", "/">>

OutputPrefix == 
    <<"l", "o", "o", "m", "-", "r", "l", "m", "/", "o", "u", "t", "p", "u", "t", "s", "/">>

CompiledPrefix == 
    <<"l", "o", "o", "m", "-", "r", "l", "m", "/", "c", "o", "m", "p", "i", "l", "e", "d", "_", "v">>

DotPy == <<".", "p", "y">>

\* [0-9]+
IsNumber(s) == Len(s) >= 1 /\ \A i \in DOMAIN s : s[i] \in Digits

\* [a-z_]+_[0-9]+
IsNameAndNumber(s) ==
    \E k \in 2..(Len(s) - 1) :
        /\ \A i \in 1..(k - 1) : s[i] \in LowerOrUnderscore
        /\ s[k] = "_"
        /\ IsNumber(SubSeq(s, k + 1, Len(s)))

\* s is prefix, then a middle, then ".py", and nothing more
PrefixAndPy(s, prefix) ==
    /\ Len(s) >= Len(prefix) + Len(DotPy)
    /\ StartsWith(s, prefix)
    /\ SubSeq(s, Len(s) - Len(DotPy) + 1, Len(s)) = DotPy

\* that middle
Middle(s, prefix) == SubSeq(s, Len(prefix) + 1, Len(s) - Len(DotPy))

\* "$" matches at the end of the string and just before a newline that ends
\* the string: s without that newline
BeforeNewline(s) ==
    IF Len(s) >= 1 /\ s[Len(s)] = "\n" THEN SubSeq(s, 1, Len(s) - 1) ELSE s

\* loom-rlm/outputs/[a-z_]+_[0-9]+\.py is the whole of s
IsOutputName(s) ==
    PrefixAndPy(s, OutputPrefix) /\ IsNameAndNumber(Middle(s, OutputPrefix))

\* loom-rlm/compiled_v[0-9]+\.py is the whole of s
IsCompiledName(s) ==
    PrefixAndPy(s, CompiledPrefix) /\ IsNumber(Middle(s, CompiledPrefix))

\* re.match(r'^loom-rlm/outputs/[a-z_]+_[0-9]+\.py$', s)
MatchesOutput(s) == IsOutputName(s) \/ IsOutputName(BeforeNewline(s))

\* re.match(r'^loom-rlm/compiled_v[0-9]+\.py$', s)
MatchesCompiled(s) == IsCompiledName(s) \/ IsCompiledName(BeforeNewline(s))

Valid == [valid |-> TRUE, message |-> <<"">>]

Invalid(text, detail) == [valid |-> FALSE, message |-> <<text, detail>>]

\* the type-specific validation
TypeCheck(path, ptype) ==
    IF ptype = "state"
    THEN IF ~StartsWith(path, StatePrefix)
         THEN Invalid("State files must be within loom-rlm/", <<>>)
         ELSE Valid
    ELSE IF ptype = "output"
    THEN IF ~MatchesOutput(path)
         THEN Invalid("Output file doesn't match required pattern: ",
                      "^loom-rlm/outputs/[a-z_]+_[0-9]+\\.py$")
         ELSE Valid
    ELSE IF ptype = "compiled"
    THEN IF ~MatchesCompiled(path)
         THEN Invalid("Compiled file doesn't match required pattern: ",
                      "^loom-rlm/compiled_v[0-9]+\\.py$")
         ELSE Valid
    ELSE IF ptype = "code"
    THEN IF StartsWith(path, <<"/">>) \/ StartsWith(path, <<"~">>)
         THEN Invalid("Code files must use relative paths within project", <<>>)
         ELSE Valid
    ELSE Valid

\* for prefix in dangerous_prefixes: the index of the first one the path starts
\* with, 0 if the loop ends without one
FirstPrefix(path) ==
    LET Hit(i) == StartsWith(path, dangerous_prefixes[i])
    IN  IF \E i \in DOMAIN dangerous_prefixes : Hit(i)
        THEN CHOOSE i \in DOMAIN dangerous_prefixes :
                Hit(i) /\ \A j \in 1..(i - 1) : ~Hit(j)
        ELSE 0

\* for pattern in forbidden_patterns: the index of the first one in the lower
\* case of the path, 0 if the loop ends without one
FirstForbidden(path) ==
    LET lower == Lower(path)
        Hit(i) == StrContains(lower, forbidden_patterns[i])
    IN  IF \E i \in DOMAIN forbidden_patterns : Hit(i)
        THEN CHOOSE i \in DOMAIN forbidden_patterns :
                Hit(i) /\ \A j \in 1..(i - 1) : ~Hit(j)
        ELSE 0

\* validate_file_path with the system directories looked at before the ".."
validate_file_path_PrefixFirst(path, ptype) ==
    LET p == FirstPrefix(path)
        f == FirstForbidden(path)
    IN  IF p # 0
        THEN Invalid("Path targets system directory: ", dangerous_prefixes[p])
        ELSE IF StrContains(path, DotDot)
        THEN Invalid("Path contains '..' (directory traversal attack)", <<>>)
        ELSE IF f # 0
        THEN Invalid("Path contains forbidden pattern: ", forbidden_patterns[f])
        ELSE TypeCheck(path, ptype)

validate_file_path(path, ptype) ==
    LET p == FirstPrefix(path)
        f == FirstForbidden(path)
    IN  IF StrContains(path, DotDot)
        THEN Invalid("Path contains '..' (directory traversal attack)", <<>>)
        ELSE IF p # 0
        THEN Invalid("Path targets system directory: ", dangerous_prefixes[p])
        ELSE IF f # 0
        THEN Invalid("Path contains forbidden pattern: ", forbidden_patterns[f])
        ELSE TypeCheck(path, ptype)

NoPathResult == [valid |-> FALSE, message |-> <<>>]

\* a call of validate_file_path
ValidateFilePath ==
    /\ path_result = NoPathResult
    /\ path_result' = validate_file_path(file_path, path_type)
    /\ UNCHANGED <<file_path, path_type, validator, files>>
    /\ UNCHANGED notPathVars

\* the pieces the paths of PathSpec are made of: what each rule looks for, in a
\* case the rule sees and a case it does not, and what the patterns accept
Fragments ==
    {<<".", ".">>,
     <<"/", "e", "t", "c">>,
     <<"~">>,
     <<"/">>,
     <<"l", "o", "o", "m", "-", "r", "l", "m", "/", "o", "u", "t", "p", "u", "t", "s", "/">>,
     <<"l", "o", "o", "m", "-", "r", "l", "m", "/", "c", "o", "m", "p", "i", "l", "e", "d", "_", "v">>,
     <<"a", "_", "1">>,
     <<"7">>,
     <<".", "p", "y">>,
     <<".", "E", "N", "V">>,
     <<"\n">>}

RECURSIVE Flatten(_)
Flatten(f) == IF f = <<>> THEN <<>> ELSE Head(f) \o Flatten(Tail(f))

\* the paths of PathSpec: up to MaxFragments fragments, one after the other
Paths == UNION {{Flatten(f) : f \in [1..n -> Fragments]} : n \in 0..MaxFragments}

\* the root the specification names for outputs, "loom/outputs/"
LoomOutputs ==
    <<"l", "o", "o", "m", "/", "o", "u", "t", "p", "u", "t", "s", "/">>

\* paths under it: "loom/outputs/coder_1.py", and others of the same form
LoomOutputPaths ==
    {LoomOutputs \o name \o DotPy :
        name \in {<<"c", "o", "d", "e", "r", "_", "1">>, <<"a", "_", "1">>,
                  <<"_", "_", "7">>, <<"a", "_", "b", "_", "1", "2">>}}

\* "state", "output", "compiled" and "code", and a type the function does not know
PathTypes == {"state", "output", "compiled", "code", "other"}

(***************************************************************************)
(* UnboundedOutputHandler and LoomRLMValidator's check of its paths.  A    *)
(* content is the number of its newline characters: split_output looks at  *)
(* nothing else of it.                                                     *)
(***************************************************************************)
THRESHOLD_LINES == 10000

LINES_PER_PART == 10000

\* the default of __init__'s base_path
DefaultBasePath ==
    <<"l", "o", "o", "m", "/",
      "u", "n", "b", "o", "u", "n", "d", "e", "d", "_",
      "o", "u", "t", "p", "u", "t", "s">>

\* what validate_unbounded_output_path demands a path to start with
UnboundedPrefix ==
    <<"l", "o", "o", "m", "-", "r", "l", "m", "/",
      "u", "n", "b", "o", "u", "n", "d", "e", "d", "_",
      "o", "u", "t", "p", "u", "t", "s", "/">>

PartInfix == <<"_", "p", "a", "r", "t", "_">>

IndexSuffix == <<"_", "i", "n", "d", "e", "x">>

DigitChars == <<"0", "1", "2", "3", "4", "5", "6", "7", "8", "9">>

RECURSIVE DecimalString(_)
\* str(n), n >= 0
DecimalString(n) ==
    IF n < 10 THEN <<DigitChars[n + 1]>>
    ELSE DecimalString(n \div 10) \o <<DigitChars[(n % 10) + 1]>>

\* len(content.split('\n'))
TotalLines(c) == c.newlines + 1

\* content.count('\n') + 1 > THRESHOLD_LINES
should_handle(c) == c.newlines + 1 > THRESHOLD_LINES

\* (total_lines + LINES_PER_PART - 1) // LINES_PER_PART
NumParts(total_lines) == (total_lines + LINES_PER_PART - 1) \div LINES_PER_PART

\* f"{self.base_path}/{base_filename}_part_{part_num + 1}.py"
PartPath(base, base_filename, part_num) ==
    base \o <<"/">> \o base_filename \o PartInfix
         \o DecimalString(part_num + 1) \o DotPy

\* the end_line of a part that always has LINES_PER_PART lines
PartEnd_Full(part_num, total_lines) == (part_num + 1) * LINES_PER_PART

\* end_line = min((part_num + 1) * LINES_PER_PART, total_lines)
PartEnd(part_num, total_lines) ==
    Min((part_num + 1) * LINES_PER_PART, total_lines)

\* len(lines[i:j]) of a list of n lines, 0 <= i, 0 <= j
SliceLen(n, i, j) == Max(0, Min(j, n) - Min(i, n))

\* the OutputPart of part_num (0-based), as the loop of split_output makes it
OutputPart(base, base_filename, part_num, total_lines) ==
    LET start_line == part_num * LINES_PER_PART
        end_line   == PartEnd(part_num, total_lines)
    IN  [part_number |-> part_num + 1,
         start_line  |-> start_line + 1,
         end_line    |-> end_line,
         line_count  |-> SliceLen(total_lines, start_line, end_line),
         file_path   |-> PartPath(base, base_filename, part_num)]

NoIndexFile == [path |-> <<>>]

RECURSIVE SumLineCounts(_, _)
\* sum(part.line_count for part in ps), over the first n of them
SumLineCounts(ps, n) ==
    IF n = 0 THEN 0 ELSE SumLineCounts(ps, n - 1) + ps[n].line_count

\* s.endswith(p)
EndsWith(s, p) ==
    Len(p) <= Len(s) /\ SubSeq(s, Len(s) - Len(p) + 1, Len(s)) = p

\* Path(s).name of a path that does not end with "/": what follows its last "/"
FileName(s) ==
    LET slashes == {i \in DOMAIN s : s[i] = "/"}
    IN  IF slashes = {} THEN s
        ELSE SubSeq(s, (CHOOSE i \in slashes : \A j \in slashes : j <= i) + 1,
                    Len(s))

\* the characters of the class [a-z0-9_]
LowerDigitUnderscore == LowerOrUnderscore \cup Digits

\* [a-z0-9_]+
IsIdentifier(s) == Len(s) >= 1 /\ \A i \in DOMAIN s : s[i] \in LowerDigitUnderscore

\* re.match(r'^[a-z0-9_]+_part_\d+\.py$', s), s ending with ".py"
MatchesPartName(s) ==
    /\ EndsWith(s, DotPy)
    /\ LET stem == SubSeq(s, 1, Len(s) - Len(DotPy))
       IN  \E k \in 1..(Len(stem) - Len(PartInfix) - 1) :
              /\ IsIdentifier(SubSeq(stem, 1, k))
              /\ SubSeq(stem, k + 1, k + Len(PartInfix)) = PartInfix
              /\ IsNumber(SubSeq(stem, k + Len(PartInfix) + 1, Len(stem)))

\* re.match(r'^[a-z0-9_]+_index\.py$', s), s ending with ".py"
MatchesIndexName(s) ==
    /\ EndsWith(s, IndexSuffix \o DotPy)
    /\ IsIdentifier(SubSeq(s, 1, Len(s) - Len(IndexSuffix) - Len(DotPy)))

validate_unbounded_output_path(path) ==
    IF ~StartsWith(path, UnboundedPrefix)
    THEN Invalid("Unbounded outputs must be in loom-rlm/unbounded_outputs/", <<>>)
    ELSE IF StrContains(path, DotDot)
    THEN Invalid("Path contains '..'", <<>>)
    ELSE IF ~EndsWith(path, DotPy)
    THEN Invalid("Unbounded output files must be .py", <<>>)
    ELSE IF ~(MatchesPartName(FileName(path)) \/ MatchesIndexName(FileName(path)))
    THEN Invalid("Invalid unbounded output filename: ", FileName(path))
    ELSE Valid

\* the pieces the paths of ValidatorSpec are made of
ValidatorFragments ==
    {<<".", ".">>,
     <<"/">>,
     <<"/", "e", "t", "c", "/">>,
     <<".", "e", "n", "v", "/">>,
     <<"l", "o", "o", "m", "-", "r", "l", "m", "/">>,
     <<"l", "o", "o", "m", "-", "r", "l", "m", "/",
       "u", "n", "b", "o", "u", "n", "d", "e", "d", "_",
       "o", "u", "t", "p", "u", "t", "s", "/">>,
     <<"a", "_", "p", "a", "r", "t", "_", "1", ".", "p", "y">>,
     <<"a", "_", "i", "n", "d", "e", "x", ".", "p", "y">>,
     <<"c", "h", "u", "n", "k", "s", "_", "m", "e", "t", "a", "d", "a", "t", "a",
       ".", "p", "y">>}

ValidatorPaths ==
    UNION {{Flatten(f) : f \in [1..n -> ValidatorFragments]} : n \in 0..MaxFragments}

\* the files validate_files_changed is given next to the path: one it accepts
\* and one it rejects
OtherFiles ==
    {<<"s", "r", "c", "/", "a", ".", "p", "y">>,
     <<".", ".", "/", "a", ".", "p", "y">>}

ChunksMetadataName ==
    <<"c", "h", "u", "n", "k", "s", "_", "m", "e", "t", "a", "d", "a", "t", "a",
      ".", "p", "y">>

validate_chunk_metadata(metadata_file) ==
    IF ~StartsWith(metadata_file, StatePrefix)
    THEN Invalid("Chunk metadata must be in loom-rlm/", <<>>)
    ELSE IF ~EndsWith(metadata_file, ChunksMetadataName)
    THEN Invalid("Chunk metadata must be named chunks_metadata.py", <<>>)
    ELSE Valid

\* the path type validate_files_changed gives a file
FileType(path) == IF StartsWith(path, StatePrefix) THEN "state" ELSE "code"

RECURSIVE FileErrors(_, _)
\* errors after the loop of validate_files_changed over the first n files
FileErrors(fs, n) ==
    IF n = 0 THEN <<>>
    ELSE LET r == validate_file_path(fs[n], FileType(fs[n]))
         IN  IF r.valid THEN FileErrors(fs, n - 1)
             ELSE Append(FileErrors(fs, n - 1), <<fs[n], ": ">> \o r.message)

\* return len(errors) == 0, errors
validate_files_changed(fs) ==
    LET errors == FileErrors(fs, Len(fs))
    IN  [valid |-> Len(errors) = 0, message |-> errors]

\* a call of validate_unbounded_output_path
ValidateUnboundedOutputPath ==
    /\ path_result = NoPathResult
    /\ path_result' = validate_unbounded_output_path(file_path)
    /\ validator' = "validate_unbounded_output_path"
    /\ UNCHANGED <<file_path, path_type, files>>
    /\ UNCHANGED notPathVars

\* a call of validate_chunk_metadata
ValidateChunkMetadata ==
    /\ path_result = NoPathResult
    /\ path_result' = validate_chunk_metadata(file_path)
    /\ validator' = "validate_chunk_metadata"
    /\ UNCHANGED <<file_path, path_type, files>>
    /\ UNCHANGED notPathVars

\* a call of validate_files_changed, with the path alone, before another
\* file or after one
ValidateFilesChanged ==
    /\ path_result = NoPathResult
    /\ \E fs \in {<<file_path>>} \cup {<<file_path, f>> : f \in OtherFiles}
                 \cup {<<f, file_path>> : f \in OtherFiles} :
          /\ files' = fs
          /\ path_result' = validate_files_changed(fs)
    /\ validator' = "validate_files_changed"
    /\ UNCHANGED <<file_path, path_type>>
    /\ UNCHANGED notPathVars

\* the task ids of OutputSpec: lowercase letters, digits and underscores
OutTaskIds ==
    {<<"t">>, <<"7">>, <<"_">>, <<"a", "_", "1">>,
     <<"t", "a", "s", "k", "_", "p", "a", "r", "t", "_", "2">>}

\* the numbers of newlines of its contents: none, and around the multiples of
\* LINES_PER_PART, up to more than nine parts
OutNewlines ==
    {0, 1, 9998, 9999, 10000, 10001, 19999, 20000, 24999, 29999, 30000, 90000}

\* its contents
OutContents == [newlines : OutNewlines]

\* the base paths of OutputSpec: the default one, and the one under loom-rlm/
OutBasePaths == {DefaultBasePath, SubSeq(UnboundedPrefix, 1, Len(UnboundedPrefix) - 1)}

\* split_output without  self.parts = [] : the parts are appended to those of
\* the splits before
SplitParts_Accumulate(old_parts, task_id, total_lines) ==
    old_parts \o [k \in 1..NumParts(total_lines) |->
                    OutputPart(base_path, task_id, k - 1, total_lines)]

\* the parts split_output leaves in self.parts: self.parts = [] before the
\* loop, one append per part
SplitParts(old_parts, task_id, total_lines) ==
    [k \in 1..NumParts(total_lines) |->
        OutputPart(base_path, task_id, k - 1, total_lines)]

\* split_output(task_id, content), base_filename left to its default
SplitOutput ==
    /\ splits < MaxSplits
    /\ splits' = splits + 1
    /\ \E task_id \in OutTaskIds, content \in OutContents :
          LET total_lines == TotalLines(content)
          IN  /\ out_task_id' = task_id
              /\ out_content' = content
              /\ parts' = SplitParts(parts, task_id, total_lines)
              /\ created_files' = [k \in 1..NumParts(total_lines) |->
                                      PartPath(base_path, task_id, k - 1)]
    /\ opc' = "split"
    /\ UNCHANGED <<base_path, index_file>>
    /\ UNCHANGED notOutputVars

\* create_index_file(task_id), base_filename left to its default, called
\* with the task id of the latest split: the path of the index, the totals
\* its content states, the lines of its listing (number, line range, line
\* count and file name of each part) and the entries of its parts list
CreateIndexFile ==
    /\ index_file' =
          [path        |-> base_path \o <<"/">> \o out_task_id
                               \o IndexSuffix \o DotPy,
           total_lines |-> SumLineCounts(parts, Len(parts)),
           total_parts |-> Len(parts),
           listing     |-> [k \in DOMAIN parts |->
                              [part_number |-> parts[k].part_number,
                               start_line  |-> parts[k].start_line,
                               end_line    |-> parts[k].end_line,
                               line_count  |-> parts[k].line_count,
                               name        |-> FileName(parts[k].file_path)]],
           parts       |-> [k \in DOMAIN parts |->
                              [part_number |-> parts[k].part_number,
                               start_line  |-> parts[k].start_line,
                               end_line    |-> parts[k].end_line,
                               line_count  |-> parts[k].line_count,
                               file_path   |-> parts[k].file_path]]]
    /\ UNCHANGED <<base_path, out_task_id, out_content, parts, created_files,
                   opc, splits>>
    /\ UNCHANGED notOutputVars

(***************************************************************************)
(* ChunkingStrategy.merge_chunk_results.  A chunk result is a dict with    *)
(* its tasks, its context and its deliverables; a task is a dict, given by *)
(* the set of its keys and their values (a key that is absent has the      *)
(* value of an empty task).  Ids are sequences of characters.  The dicts   *)
(* and lists are objects: merge_chunk_results rewrites the tasks it is     *)
(* given in place, and a context value it takes over from a chunk result   *)
(* is the chunk result's own object.                                       *)
(***************************************************************************)
ChunkWord == <<"c", "h", "u", "n", "k">>

\* ChunkingConfig.merge_strategy
MergeStrategy == "sequential"

\* f"chunk{chunk_idx}_{original_id}"
Prefixed(chunk_idx, id) ==
    ChunkWord \o DecimalString(chunk_idx) \o <<"_">> \o id

\* the rewrite of a dependency: prefixed unless it starts with "chunk"
UpdatedDep(chunk_idx, dep) ==
    IF ~StartsWith(dep, ChunkWord) THEN Prefixed(chunk_idx, dep) ELSE dep

\* a task after the loop body of merge_chunk_results, in chunk chunk_idx
\* (0-based) of total
MergedTask(task, chunk_idx, total) ==
    [keys          |-> task.keys \cup {"chunk_id", "chunk_context"},
     id            |-> Prefixed(chunk_idx, task.id),
     depends_on    |-> IF "depends_on" \in task.keys
                       THEN [k \in DOMAIN task.depends_on |->
                               UpdatedDep(chunk_idx, task.depends_on[k])]
                       ELSE task.depends_on,
     chunk_id      |-> chunk_idx,
     chunk_context |-> <<"Processes chunk ", chunk_idx + 1, "/", total>>]

\* merge_chunk_results' original_prompt: the prompt of the strategy
OriginalPrompts == {prompt}

\* the context of merged when the loop starts; owner is, for each key, the
\* chunk result (1-based) whose object the value is, 0 for merged's own
InitialContext(total) ==
    [val   |-> [k \in {"chunked", "total_chunks", "merge_strategy"} |->
                   IF k = "chunked" THEN [type |-> "bool", bool |-> TRUE]
                   ELSE IF k = "total_chunks" THEN [type |-> "int", int |-> total]
                   ELSE [type |-> "str", str |-> MergeStrategy]],
     owner |-> [k \in {"chunked", "total_chunks", "merge_strategy"} |-> 0]]

\* the value of a context key after a later chunk's value joins it:
\* list.extend for a list, dict.update for a dict, nothing for anything else
Joined(old, value) ==
    IF value.type = "list"
    THEN [type |-> "list", list |-> old.list \o value.list]
    ELSE IF value.type = "dict"
    THEN [type |-> "dict",
          dict |-> [x \in (DOMAIN old.dict) \cup (DOMAIN value.dict) |->
                      IF x \in DOMAIN value.dict THEN value.dict[x]
                      ELSE old.dict[x]]]
    ELSE old

\* .extend on what is not a list, .update on what is not a dict: AttributeError
JoinFails(old, value) ==
    \/ value.type = "list" /\ old.type # "list"
    \/ value.type = "dict" /\ old.type # "dict"

\* the keys of a context, in the order the dict has them
RECURSIVE KeysInOrder(_)
KeysInOrder(S) ==
    IF S = {} THEN <<>>
    ELSE LET k == CHOOSE x \in S : TRUE IN <<k>> \o KeysInOrder(S \ {k})

RECURSIVE MergeContext(_, _, _, _)
\* for key, value in chunk_context.items(), from the i-th key on, for the chunk
\* result at idx (1-based): st is the chunk results, the context of merged and
\* whether an exception was raised
MergeContext(st, idx, keys, i) ==
    IF i > Len(keys) \/ st.raised # "" THEN st
    ELSE LET key   == keys[i]
             value == st.results[idx].context[key]
         IN  IF key \notin DOMAIN st.context.val
             THEN MergeContext(
                    [st EXCEPT !.context =
                        [val   |-> DictSet(st.context.val, key, value),
                         owner |-> DictSet(st.context.owner, key, idx)]],
                    idx, keys, i + 1)
             ELSE LET old == st.context.val[key]
                      own == st.context.owner[key]
                  IN  IF JoinFails(old, value)
                      THEN [st EXCEPT !.raised = "AttributeError"]
                      ELSE LET new == Joined(old, value)
                           IN  MergeContext(
                                 [st EXCEPT
                                    !.context.val[key] = new,
                                    !.results =
                                       IF own = 0 THEN @
                                       ELSE [@ EXCEPT ![own].context[key] = new]],
                                 idx, keys, i + 1)

RECURSIVE MergeChunks(_, _)
\* for chunk_idx, chunk_result in enumerate(chunk_results), from the chunk
\* result at idx (1-based) on
MergeChunks(st, idx) ==
    IF idx > Len(st.results) \/ st.raised # "" THEN st
    ELSE LET total  == Len(st.results)
             result == st.results[idx]
             tasks1 == [k \in DOMAIN result.tasks |->
                          MergedTask(result.tasks[k], idx - 1, total)]
             st1    == [st EXCEPT !.results[idx].tasks = tasks1,
                                  !.tasks = @ \o tasks1]
             st2    == MergeContext(st1, idx,
                                    KeysInOrder(DOMAIN result.context), 1)
         IN  IF st2.raised # "" THEN st2
             ELSE MergeChunks(
                    [st2 EXCEPT !.deliverables = @ \o result.deliverables],
                    idx + 1)

\* the elements of a list
Elements(s) == {s[i] : i \in DOMAIN s}

\* the lists that hold each element of S once
ListsOf(S) ==
    {s \in [1..Cardinality(S) -> S] : \A i, j \in DOMAIN s : i # j => s[i] # s[j]}

NoMerge == [raised |-> "none", empty |-> FALSE]

\* merge_chunk_results(chunk_results, original_prompt): what it returns, or the
\* exception it raises, and what it leaves of the chunk results; list(set(...))
\* puts the deliverables in an order of its own
MergeChunkResults ==
    /\ merges < MaxMerges
    /\ merges' = merges + 1
    /\ \E original_prompt \in OriginalPrompts :
       IF chunk_results = <<>>
       THEN /\ merged_result' = [raised |-> "", empty |-> TRUE]
            /\ UNCHANGED chunk_results
       ELSE LET st == MergeChunks(
                        [results      |-> chunk_results,
                         tasks        |-> <<>>,
                         context      |-> InitialContext(Len(chunk_results)),
                         deliverables |-> <<>>,
                         raised       |-> ""], 1)
            IN  /\ chunk_results' = st.results
                /\ IF st.raised # ""
                   THEN merged_result' = [raised |-> st.raised, empty |-> FALSE]
                   ELSE \E ds \in ListsOf(Elements(st.deliverables)) :
                          merged_result' =
                            [raised       |-> "",
                             empty        |-> FALSE,
                             version      |-> 1,
                             original     |-> original_prompt,
                             intent       |-> chunk_results[1].intent,
                             tasks        |-> st.tasks,
                             context      |-> st.context.val,
                             deliverables |-> ds,
                             chunking_metadata |->
                                [total_chunks     |-> Len(chunk_results),
                                 merge_strategy   |-> MergeStrategy,
                                 chunk_boundaries |->
                                    [k \in DOMAIN self_chunks |->
                                       [chunk_id   |-> self_chunks[k].chunk_id,
                                        start_char |-> self_chunks[k].start_char,
                                        end_char   |-> self_chunks[k].end_char,
                                        tokens     |->
                                           self_chunks[k].estimated_tokens]]]]
    /\ UNCHANGED notMergeVars

(***************************************************************************)
(* Python floats.  The scores and weights of ComplexityCalculator are      *)
(* float literals and overall_score is computed in binary floating point   *)
(* (IEEE 754 double precision, round to nearest, ties to even), so a sum   *)
(* that is 0.8 in the reals need not be the float 0.8.  A natural number   *)
(* is the sequence of its digits in base 2^14, lowest first, without       *)
(* leading zeros; a float is m * 2^e with m of 53 bits, or zero with       *)
(* m = <<>>.  All values here are between 2^-8 and 1, so exponents stay in *)
(* the normal range.                                                       *)
(***************************************************************************)
MantissaBits == 53

\* the bits of one digit of a natural number
DigitBits == 14

\* how many bits of a quotient FloatOf computes before it rounds
QuotientBits == 70

DigitBase == 2 ^ DigitBits

\* the k-th digit, 0 beyond the highest
DigitAt(a, k) == IF k \in DOMAIN a THEN a[k] ELSE 0

RECURSIVE TrimDigits(_)
\* without the leading zeros
TrimDigits(a) ==
    IF a = <<>> \/ a[Len(a)] # 0 THEN a
    ELSE TrimDigits(SubSeq(a, 1, Len(a) - 1))

RECURSIVE Carried(_, _)
\* the digits of the number whose columns are cols, plus carry
Carried(cols, carry) ==
    IF cols = <<>>
    THEN IF carry = 0 THEN <<>>
         ELSE <<carry % DigitBase>> \o Carried(<<>>, carry \div DigitBase)
    ELSE LET s == Head(cols) + carry
         IN  <<s % DigitBase>> \o Carried(Tail(cols), s \div DigitBase)

\* a + b on naturals
AddDigits(a, b) ==
    LET n == IF Len(a) < Len(b) THEN Len(b) ELSE Len(a)
    IN  TrimDigits(Carried([k \in 1..n |-> DigitAt(a, k) + DigitAt(b, k)], 0))

RECURSIVE ColumnSum(_, _, _, _)
\* the sum of a[i] * b[k + 1 - i] for i from i up
ColumnSum(a, b, k, i) ==
    IF i > Len(a) THEN 0
    ELSE a[i] * DigitAt(b, k + 1 - i) + ColumnSum(a, b, k, i + 1)

\* a * b on naturals of at most four digits
MulDigits(a, b) ==
    IF a = <<>> \/ b = <<>> THEN <<>>
    ELSE TrimDigits(Carried([k \in 1..(Len(a) + Len(b) - 1) |->
                               ColumnSum(a, b, k, 1)], 0))

\* a * 2^k
ShiftLeft(a, k) ==
    IF a = <<>> THEN <<>>
    ELSE [i \in 1..(k \div DigitBits) |-> 0]
         \o Carried([i \in DOMAIN a |-> a[i] * 2 ^ (k % DigitBits)], 0)

\* a \div 2^k
ShiftRight(a, k) ==
    LET q == k \div DigitBits
        r == k % DigitBits
    IN  TrimDigits([j \in 1..(Len(a) - q) |->
                      (DigitAt(a, q + j) \div 2 ^ r)
                      + (DigitAt(a, q + j + 1) % 2 ^ r) * 2 ^ (DigitBits - r)])

\* how many bits a has
BitLength(a) ==
    IF a = <<>> THEN 0
    ELSE DigitBits * (Len(a) - 1)
         + CHOOSE n \in 1..DigitBits :
              2 ^ (n - 1) <= a[Len(a)] /\ a[Len(a)] < 2 ^ n

\* bit i of a, bit 0 the lowest
BitAt(a, i) == (DigitAt(a, i \div DigitBits + 1) \div 2 ^ (i % DigitBits)) % 2

\* a < b
LessDigits(a, b) ==
    \/ Len(a) < Len(b)
    \/ /\ Len(a) = Len(b)
       /\ \E i \in DOMAIN a :
             /\ a[i] < b[i]
             /\ \A j \in (i + 1)..Len(a) : a[j] = b[j]

FloatZero == [m |-> <<>>, e |-> 0]

\* the float nearest to n * 2^e, ties to the even mantissa
RoundToFloat(n, e) ==
    IF n = <<>> THEN FloatZero
    ELSE IF BitLength(n) <= MantissaBits
    THEN [m |-> ShiftLeft(n, MantissaBits - BitLength(n)),
          e |-> e - (MantissaBits - BitLength(n))]
    ELSE LET drop   == BitLength(n) - MantissaBits
             kept   == ShiftRight(n, drop)
             sticky == \E i \in 0..(drop - 2) : BitAt(n, i) = 1
             up     == BitAt(n, drop - 1) = 1 /\ (sticky \/ BitAt(kept, 0) = 1)
             r      == IF up THEN AddDigits(kept, <<1>>) ELSE kept
         IN  IF BitLength(r) > MantissaBits
             THEN [m |-> ShiftRight(r, 1), e |-> e + drop + 1]
             ELSE [m |-> r, e |-> e + drop]

\* x * y on floats
FloatMul(x, y) == RoundToFloat(MulDigits(x.m, y.m), x.e + y.e)

\* x + y on floats
FloatAdd(x, y) ==
    IF x.m = <<>> THEN y
    ELSE IF y.m = <<>> THEN x
    ELSE LET e == IF x.e < y.e THEN x.e ELSE y.e
         IN  RoundToFloat(AddDigits(ShiftLeft(x.m, x.e - e),
                                    ShiftLeft(y.m, y.e - e)), e)

\* x < y on floats that are not negative
FloatLess(x, y) ==
    IF y.m = <<>> THEN FALSE
    ELSE IF x.m = <<>> THEN TRUE
    ELSE LET e == IF x.e < y.e THEN x.e ELSE y.e
         IN  LessDigits(ShiftLeft(x.m, x.e - e), ShiftLeft(y.m, y.e - e))

RECURSIVE QuotientDigits(_, _, _)
\* the digits of a \div d for a small d, highest first, by long division
QuotientDigits(a, d, rem) ==
    IF a = <<>> THEN <<>>
    ELSE LET x == rem * DigitBase + a[Len(a)]
         IN  <<x \div d>> \o QuotientDigits(SubSeq(a, 1, Len(a) - 1), d, x % d)

RECURSIVE Remainder(_, _, _)
\* a % d for a small d
Remainder(a, d, rem) ==
    IF a = <<>> THEN rem
    ELSE Remainder(SubSeq(a, 1, Len(a) - 1), d, (rem * DigitBase + a[Len(a)]) % d)

\* the float a decimal literal n/d denotes (0 <= n <= d): the nearest one to
\* the quotient, of which QuotientBits bits after the point are computed, and
\* one more bit that says whether anything is left
FloatOf(n, d) ==
    LET a == ShiftLeft(<<n>>, QuotientBits)
        q == TrimDigits(Reversed(QuotientDigits(a, d, 0)))
    IN  RoundToFloat(AddDigits(ShiftLeft(q, 1),
                               IF Remainder(a, d, 0) = 0 THEN <<>> ELSE <<1>>),
                     0 - (QuotientBits + 1))

(***************************************************************************)
(* ComplexityCalculator.calculate.  A factor score is one of the float     *)
(* literals 0.0, 0.3, 0.5, 0.6, 0.8, 1.0 and is named by its tenths; the   *)
(* weights, the weighted sum and the thresholds are floats.                *)
(***************************************************************************)
\* the float of each score literal, by its tenths
ScoreFloat == [t \in 0..10 |-> FloatOf(t, 10)]

WEIGHT_TASK_COUNT == FloatOf(30, 100)

WEIGHT_DEPENDENCY_DEPTH == FloatOf(30, 100)

WEIGHT_INPUT_SIZE == FloatOf(20, 100)

WEIGHT_TASK_DIVERSITY == FloatOf(20, 100)

ITERATION_MAP ==
    <<[min_score |-> ScoreFloat[0], max_score |-> ScoreFloat[3], iterations |-> 3],
      [min_score |-> ScoreFloat[3], max_score |-> ScoreFloat[6], iterations |-> 5],
      [min_score |-> ScoreFloat[6], max_score |-> ScoreFloat[8], iterations |-> 7],
      [min_score |-> ScoreFloat[8], max_score |-> ScoreFloat[10], iterations |-> 10]>>

\* _calculate_task_count_score
calculate_task_count_score(ts) ==
    IF Len(ts) <= 2 THEN 0
    ELSE IF Len(ts) <= 5 THEN 5
    ELSE IF Len(ts) <= 10 THEN 8
    ELSE 10

\* _calculate_input_size_score, on the length of compiled_prompt["original"]
calculate_input_size_score(char_count) ==
    IF char_count < 10000 THEN 0
    ELSE IF char_count < 50000 THEN 3
    ELSE IF char_count < 100000 THEN 6
    ELSE IF char_count < 200000 THEN 8
    ELSE 10

\* task.get("requires", [])
RequiresOf(task) == IF "requires" \in DOMAIN task THEN task.requires ELSE <<>>

\* _calculate_task_diversity_score
calculate_task_diversity_score(ts) ==
    IF ts = <<>> THEN 0
    ELSE LET capabilities ==
                 UNION {{RequiresOf(ts[i])[k] : k \in DOMAIN RequiresOf(ts[i])}
                        : i \in DOMAIN ts}
             unique_count == Cardinality(capabilities)
         IN  IF unique_count <= 1 THEN 0
             ELSE IF unique_count = 2 THEN 3
             ELSE IF unique_count = 3 THEN 6
             ELSE IF unique_count = 4 THEN 8
             ELSE 10

\* min_score <= score < max_score
InRange(entry, score) ==
    /\ ~FloatLess(score, entry.min_score)
    /\ FloatLess(score, entry.max_score)

\* _map_score_to_iterations: the first range that holds the score, or the last
\* entry's iterations
map_score_to_iterations(score) ==
    IF \E k \in DOMAIN ITERATION_MAP : InRange(ITERATION_MAP[k], score)
    THEN ITERATION_MAP[CHOOSE k \in DOMAIN ITERATION_MAP :
                          /\ InRange(ITERATION_MAP[k], score)
                          /\ \A j \in 1..(k - 1) : ~InRange(ITERATION_MAP[j], score)
                      ].iterations
    ELSE ITERATION_MAP[Len(ITERATION_MAP)].iterations

\* the weighted overall score, added up from the left
WeightedScore(task_count, dep_depth, input_size, diversity) ==
    FloatAdd(
        FloatAdd(
            FloatAdd(FloatMul(ScoreFloat[task_count], WEIGHT_TASK_COUNT),
                     FloatMul(ScoreFloat[dep_depth], WEIGHT_DEPENDENCY_DEPTH)),
            FloatMul(ScoreFloat[input_size], WEIGHT_INPUT_SIZE)),
        FloatMul(ScoreFloat[diversity], WEIGHT_TASK_DIVERSITY))

\* the reasoning list: calculate appends the reason of each factor, in the
\* order task count, dependency depth, input size, task diversity; a reason
\* is its text, without the number and the level in it, and the number
Reasoning(ts, char_count) ==
    <<[text |-> "Task count: tasks", n |-> Len(ts)],
      IF ts = <<>>
      THEN [text |-> depth_result.reason, n |-> 0]
      ELSE [text |-> "Dependency depth: levels", n |-> depth_result.depth],
      [text |-> "Input size: tokens",
       n |-> estimate_tokens([len |-> char_count, sp |-> <<>>])],
      IF ts = <<>>
      THEN [text |-> "No tasks to analyze", n |-> 0]
      ELSE [text |-> "Task diversity: unique capabilities",
            n |-> Cardinality(UNION {{RequiresOf(ts[i])[k] :
                                        k \in DOMAIN RequiresOf(ts[i])}
                                     : i \in DOMAIN ts})]>>

NoComplexity == [kind |-> "none"]

\* calculate from the return of _calculate_dependency_depth_score on: the
\* ComplexityScore it returns, or the exception that came out of the depth
CalculateReturn ==
    /\ dpc = "done"
    /\ complexity = NoComplexity
    /\ IF depth_result.kind = "score"
       THEN LET factors ==
                    [task_count       |-> calculate_task_count_score(tasks),
                     dependency_depth |-> depth_result.score,
                     input_size       |-> calculate_input_size_score(original_len),
                     task_diversity   |-> calculate_task_diversity_score(tasks)]
                overall_score ==
                    WeightedScore(factors.task_count, factors.dependency_depth,
                                  factors.input_size, factors.task_diversity)
            IN  complexity' =
                   [kind           |-> "score",
                    overall_score  |-> overall_score,
                    max_iterations |-> map_score_to_iterations(overall_score),
                    factors        |-> factors,
                    reasoning      |-> Reasoning(tasks, original_len)]
       ELSE complexity' = [kind |-> depth_result.kind]
    /\ UNCHANGED original_len
    /\ UNCHANGED notComplexityVars

(***************************************************************************)
(* LoomRLMValidator.validate_patch.  A patch is a dict: a function from    *)
(* the keys it has to their values; a value is given with its type, and a  *)
(* string is the sequence of its characters.                               *)
(***************************************************************************)
StrValue(s) == [type |-> "str", str |-> s]

\* None
NoneValue == [type |-> "NoneType"]

IntValue(n) == [type |-> "int", int |-> n]

DictValue(d) == [type |-> "dict", dict |-> d]

ListValue(l) == [type |-> "list", list |-> l]

\* d.get(key, default)
Get(d, key, default) == IF key \in DOMAIN d THEN d[key] ELSE default

\* bool(v)
Truthy(v) ==
    CASE v.type = "NoneType" -> FALSE
      [] v.type = "str" -> v.str # <<>>
      [] v.type = "int" -> v.int # 0
      [] v.type = "dict" -> DOMAIN v.dict # {}
      [] v.type = "list" -> v.list # <<>>

ALLOWED_PATCH_ACTIONS ==
    {<<"a", "d", "d", "_", "c", "o", "n", "t", "e", "x", "t">>,
     <<"u", "p", "d", "a", "t", "e", "_", "t", "a", "s", "k">>,
     <<"a", "d", "d", "_", "t", "a", "s", "k">>,
     <<"r", "e", "m", "o", "v", "e", "_", "t", "a", "s", "k">>,
     <<"u", "p", "d", "a", "t", "e", "_", "i", "n", "t", "e", "n", "t">>}

\* the fields update_task may name
UpdatableFields ==
    {<<"d", "e", "s", "c", "r", "i", "p", "t", "i", "o", "n">>,
     <<"r", "e", "q", "u", "i", "r", "e", "s">>,
     <<"d", "e", "p", "e", "n", "d", "s", "_", "o", "n">>}

\* what the value of add_context is searched for
ShellCommands ==
    {<<"r", "m", " ", "-", "r", "f">>,
     <<"c", "u", "r", "l">>,
     <<"w", "g", "e", "t">>,
     <<"s", "u", "d", "o">>}

\* what the value of add_context may not start with
UrlSchemes ==
    {<<"h", "t", "t", "p", ":", "/", "/">>,
     <<"h", "t", "t", "p", "s", ":", "/", "/">>,
     <<"f", "t", "p", ":", "/", "/">>}

\* the characters of the class [a-zA-Z_]
LetterOrUnderscore ==
    LowerOrUnderscore \cup {UpperCase[k] : k \in DOMAIN UpperCase}

\* [a-zA-Z_][a-zA-Z0-9_]* is the whole of s
IsContextKey(s) ==
    /\ Len(s) >= 1
    /\ s[1] \in LetterOrUnderscore
    /\ \A i \in 2..Len(s) : s[i] \in LetterOrUnderscore \cup Digits

\* re.match(r'^[a-zA-Z_][a-zA-Z0-9_]*$', s)
MatchesContextKey(s) == IsContextKey(s) \/ IsContextKey(BeforeNewline(s))

Accepted == [raised |-> "", valid |-> TRUE, message |-> <<"">>]

Rejected(text, detail) == [raised |-> "", valid |-> FALSE, message |-> <<text>> \o detail]

Raised(exception) == [raised |-> exception, valid |-> FALSE, message |-> <<>>]

\* the branch of validate_patch for add_context; re.match raises TypeError on
\* a key that is not a string
ValidateAddContext(p) ==
    LET key   == Get(p, "key", StrValue(<<>>))
        value == Get(p, "value", NoneValue)
    IN  IF key.type # "str" THEN Raised("TypeError")
        ELSE IF ~MatchesContextKey(key.str)
        THEN Rejected("Invalid context key: ",
                      <<key.str, " (must be alphanumeric/underscore)">>)
        ELSE IF value.type = "str"
                /\ \E cmd \in ShellCommands : StrContains(Lower(value.str), cmd)
        THEN Rejected("Context value contains shell command", <<>>)
        ELSE IF value.type = "str"
                /\ \E scheme \in UrlSchemes : StartsWith(Lower(value.str), scheme)
        THEN Rejected("Context value contains raw URL", <<>>)
        ELSE Accepted

\* the branch for update_task
ValidateUpdateTask(p) ==
    LET task_id == Get(p, "task_id", NoneValue)
        field   == Get(p, "field", NoneValue)
    IN  IF ~Truthy(task_id) THEN Rejected("update_task requires task_id", <<>>)
        ELSE IF ~(field.type = "str" /\ field.str \in UpdatableFields)
        THEN Rejected("Invalid field for update_task: ", <<field>>)
        ELSE Accepted

\* the branch for add_task, without the check of outputs_to
ValidateAddTask_AnyOutput(p) ==
    LET task == Get(p, "task", DictValue(<<>>))
    IN  IF task.type # "dict" THEN Raised("AttributeError")
        ELSE IF ~Truthy(Get(task.dict, "id", NoneValue))
        THEN Rejected("add_task requires task with 'id'", <<>>)
        ELSE Accepted

\* the branch for add_task; task.get raises AttributeError on a task that is
\* not a dict, and validate_file_path TypeError on a path that is NoneValue
ValidateAddTask(p) ==
    LET task == Get(p, "task", DictValue(<<>>))
    IN  IF task.type # "dict" THEN Raised("AttributeError")
        ELSE IF ~Truthy(Get(task.dict, "id", NoneValue))
        THEN Rejected("add_task requires task with 'id'", <<>>)
        ELSE LET outputs_to == Get(task.dict, "outputs_to", StrValue(<<>>))
             IN  IF outputs_to.type # "str" THEN Raised("TypeError")
                 ELSE LET checked == validate_file_path(outputs_to.str, "output")
                      IN  IF ~checked.valid
                          THEN Rejected("Invalid outputs_to path: ", checked.message)
                          ELSE Accepted

\* the branch for remove_task
ValidateRemoveTask(p) ==
    IF ~Truthy(Get(p, "task_id", NoneValue))
    THEN Rejected("remove_task requires task_id", <<>>)
    ELSE Accepted

\* the branch for update_intent
ValidateUpdateIntent(p) ==
    IF Get(p, "new_intent", DictValue(<<>>)).type # "dict"
    THEN Rejected("new_intent must be a dictionary", <<>>)
    ELSE Accepted

\* validate_patch(patch); the test of the action against the set raises
\* TypeError on an action that cannot be hashed
validate_patch(p) ==
    LET action == Get(p, "action", NoneValue)
    IN  IF action.type \in {"list", "dict"} THEN Raised("TypeError")
        ELSE IF ~(action.type = "str" /\ action.str \in ALLOWED_PATCH_ACTIONS)
        THEN Rejected("Invalid patch action: ",
                      <<action, " (allowed: ", ALLOWED_PATCH_ACTIONS, ")">>)
        ELSE IF action.str = <<"a", "d", "d", "_", "c", "o", "n", "t", "e", "x", "t">> THEN ValidateAddContext(p)
        ELSE IF action.str = <<"u", "p", "d", "a", "t", "e", "_", "t", "a", "s", "k">> THEN ValidateUpdateTask(p)
        ELSE IF action.str = <<"a", "d", "d", "_", "t", "a", "s", "k">> THEN ValidateAddTask(p)
        ELSE IF action.str = <<"r", "e", "m", "o", "v", "e", "_", "t", "a", "s", "k">> THEN ValidateRemoveTask(p)
        ELSE ValidateUpdateIntent(p)

NoPatchResult == [raised |-> "none", valid |-> FALSE, message |-> <<>>]

\* a call of validate_patch
ValidatePatch ==
    /\ patch_result = NoPatchResult
    /\ patch_result' = validate_patch(patch)
    /\ UNCHANGED patch
    /\ UNCHANGED notPatchVars

\* a dict with the keys of ks, each with one of the values given for it; a key
\* given the value Missing is left out
Missing == [type |-> "missing"]

DictsOf(choices) ==
    {[k \in {x \in DOMAIN f : f[x] # Missing} |-> f[k]] :
        f \in {g \in [DOMAIN choices -> UNION {choices[k] : k \in DOMAIN choices}] :
                 \A k \in DOMAIN choices : g[k] \in choices[k]}}

\* the task ids of PatchSpec's patches
PatchTaskIds == {Missing, NoneValue, StrValue(<<>>), StrValue(<<"t", "1">>), IntValue(5)}

\* the outputs_to of its tasks: none, not a string, a path of the output
\* pattern, and paths that validate_file_path turns down for each of its reasons
PatchOutputs ==
    {Missing, NoneValue, StrValue(<<>>),
     StrValue(OutputPrefix \o <<"a", "_", "1">> \o DotPy),
     StrValue(<<"l", "o", "o", "m", "/", "o", "u", "t", "p", "u", "t", "s", "/">> \o <<"a", "_", "1">> \o DotPy),
     StrValue(DotDot \o <<"/">> \o OutputPrefix \o <<"a", "_", "1">> \o DotPy),
     StrValue(<<"/", "e", "t", "c", "/">> \o <<"a", "_", "1">> \o DotPy),
     StrValue(OutputPrefix \o <<".", "e", "n", "v">> \o <<"_", "1">> \o DotPy)}

\* its tasks: none, not a dict, and dicts
PatchTasks ==
    {Missing, NoneValue}
    \cup {DictValue(d) : d \in DictsOf([id |-> PatchTaskIds, outputs_to |-> PatchOutputs])}

\* its context keys
PatchKeys ==
    {Missing, NoneValue, StrValue(<<>>), StrValue(<<"k", "_", "1">>), StrValue(<<"_", "K">>),
     StrValue(<<"1", "k">>), StrValue(<<"k", "-", "1">>), StrValue(<<"k", "\n">>)}

\* its context values
PatchValues ==
    {Missing, IntValue(5), StrValue(<<"o", "k">>),
     StrValue(<<"S", "U", "D", "O", " ", "x">>), StrValue(<<"a", " ", "c", "u", "r", "l">>),
     StrValue(<<"H", "T", "T", "P", "S", ":", "/", "/", "x">>), StrValue(<<" ", "h", "t", "t", "p", ":", "/", "/", "x">>)}

\* its fields
PatchFields ==
    {Missing, NoneValue, StrValue(<<"i", "d">>)} \cup {StrValue(f) : f \in UpdatableFields}

\* its intents
PatchIntents ==
    {Missing, NoneValue, DictValue(<<>>), DictValue([goal |-> StrValue(<<"g">>)]),
     StrValue(<<"g">>), ListValue(<<>>)}

\* its actions that are not on the allow-list
OtherActions ==
    {Missing, NoneValue, ListValue(<<>>), StrValue(<<"d", "e", "l", "e", "t", "e", "_", "e", "v", "e", "r", "y", "t", "h", "i", "n", "g">>),
     StrValue(<<"A", "D", "D", "_", "T", "A", "S", "K">>)}

\* the patches of PatchSpec: for each action the keys it reads, and every key
\* for the actions that are not allowed
Patches ==
    DictsOf([action |-> {StrValue(<<"a", "d", "d", "_", "c", "o", "n", "t", "e", "x", "t">>)},
             key |-> PatchKeys, value |-> PatchValues])
    \cup DictsOf([action |-> {StrValue(<<"u", "p", "d", "a", "t", "e", "_", "t", "a", "s", "k">>)},
                  task_id |-> PatchTaskIds, field |-> PatchFields])
    \cup DictsOf([action |-> {StrValue(<<"a", "d", "d", "_", "t", "a", "s", "k">>)}, task |-> PatchTasks])
    \cup DictsOf([action |-> {StrValue(<<"r", "e", "m", "o", "v", "e", "_", "t", "a", "s", "k">>)},
                  task_id |-> PatchTaskIds])
    \cup DictsOf([action |-> {StrValue(<<"u", "p", "d", "a", "t", "e", "_", "i", "n", "t", "e", "n", "t">>)},
                  new_intent |-> PatchIntents])
    \cup DictsOf([action |-> OtherActions,
                  task_id |-> {Missing, StrValue(<<"t", "1">>)},
                  new_intent |-> {Missing, DictValue(<<>>)}])

(***************************************************************************)
(* Specifications.  Each one runs one component from its constructed       *)
(* state; the other components stay idle.                                  *)
(***************************************************************************)
SpawnIdle ==
    /\ max_depth = DefaultMaxDepth
    /\ spawn_tree = <<>>
    /\ root_tasks = {}
    /\ call = NoCall

ChunkIdle ==
    /\ config = DefaultConfig
    /\ prompt = EmptyText
    /\ cpc = "idle"
    /\ start_char = 0
    /\ chunks = <<>>
    /\ self_chunks = <<>>
    /\ chunk_needed = NotAsked
    /\ break_point = NoBreak

DepthIdle ==
    /\ tasks = <<>>
    /\ task_deps = EmptyDict
    /\ task_levels = <<>>
    /\ stack = <<>>
    /\ loop_i = 1
    /\ dpc = "idle"
    /\ depth_result = NoDepthResult

PathIdle ==
    /\ file_path = <<>>
    /\ path_type = "state"
    /\ path_result = NoPathResult
    /\ validator = "validate_file_path"
    /\ files = <<>>

OutputIdle ==
    /\ base_path = DefaultBasePath
    /\ out_task_id = <<>>
    /\ out_content = [newlines |-> 0]
    /\ parts = <<>>
    /\ created_files = <<>>
    /\ index_file = NoIndexFile
    /\ opc = "idle"
    /\ splits = 0

\* the ids of MergeSpec's tasks; the second one starts with "chunk"
MergeIds == {<<"a">>, ChunkWord \o <<"s">>}

\* its tasks: without depends_on, or depending on one id
MergeTasks ==
    {[keys |-> {"id"}, id |-> id, depends_on |-> <<>>, chunk_id |-> 0,
      chunk_context |-> <<>>] : id \in MergeIds}
    \cup
    {[keys |-> {"id", "depends_on"}, id |-> id, depends_on |-> <<dep>>,
      chunk_id |-> 0, chunk_context |-> <<>>] : id \in MergeIds, dep \in MergeIds}

MergeTaskLists == UNION {[1..n -> MergeTasks] : n \in 0..MaxMergeTasks}

\* the values of its one context key: two strings, two lists, two dicts
MergeValues ==
    {[type |-> "str", str |-> "s"],
     [type |-> "str", str |-> "t"],
     [type |-> "list", list |-> <<"x">>],
     [type |-> "list", list |-> <<"y">>],
     [type |-> "dict", dict |-> [x \in {"p"} |-> "q"]],
     [type |-> "dict", dict |-> [x \in {"p", "r"} |-> "z"]]}

MergeContexts == {<<>>} \cup {[k \in {"notes"} |-> v] : v \in MergeValues}

MergeDeliverables == {<<>>, <<"d1", "d2">>}

MergeIdle ==
    /\ chunk_results = <<>>
    /\ merged_result = NoMerge
    /\ merges = 0

\* the id of the i-th task of ComplexitySpec's graphs
TaskId(i) == ToString(i)

\* how many of k capabilities, dealt out in turn to n tasks, the i-th task gets
NumCaps(i, n, k) == IF i > k THEN 0 ELSE (k - i) \div n + 1

\* n tasks of which the first d are a chain, each depending on the one before,
\* requiring k capabilities between them
ShapedTasks(n, d, k) ==
    [i \in 1..n |->
       [id         |-> TaskId(i),
        depends_on |-> IF 1 < i /\ i <= d THEN <<TaskId(i - 1)>> ELSE <<>>,
        requires   |-> [j \in 1..NumCaps(i, n, k) |-> TaskId(i + (j - 1) * n)]]]

\* the task counts on both sides of each step of the task-count score
TaskCounts == {0, 1, 2, 3, 5, 6, 10, 11}

\* the lengths of compiled_prompt["original"] on both sides of each step of
\* the input-size score
CharCounts == {9999, 10000, 49999, 50000, 99999, 100000, 199999, 200000}

\* the numbers of capabilities
CapabilityCounts == 0..5

\* the chain lengths of the shaped graphs, dependencies first
ChainLengths == 1..5

ShapedTaskLists ==
    {ShapedTasks(n, d, k) :
        n \in TaskCounts, d \in ChainLengths, k \in CapabilityCounts}

\* an ascending list of the numbers of S
Ascending(S) ==
    CHOOSE s \in [1..Cardinality(S) -> S] :
        \A i, j \in DOMAIN s : i < j => s[i] < s[j]

\* the acyclic graphs of n tasks: task i depends on some of the tasks before
\* it; in every order of the tasks
OrderedGraphs(n) ==
    {[k \in 1..n |->
        [id         |-> TaskId(p[k]),
         depends_on |-> LET D == Ascending({j \in 1..n : <<p[k], j>> \in E})
                        IN  [x \in DOMAIN D |-> TaskId(D[x])],
         requires   |-> <<>>]] :
        p \in Permutations(1..n),
        E \in SUBSET {e \in (1..n) \X (1..n) : e[2] < e[1]}}

\* longer chains, up to those that take more activations of get_level than
\* the recursion limit has room for, dependencies first and dependencies last
LongChains ==
    {ShapedTasks(n, n, 0) : n \in 4..(RecursionLimit + 2)}
    \cup {Reversed(ShapedTasks(n, n, 0)) : n \in 4..(RecursionLimit + 2)}

GraphTaskLists == UNION {OrderedGraphs(n) : n \in 0..MaxGraphTasks} \cup LongChains

ComplexityIdle ==
    /\ original_len = 0
    /\ complexity = NoComplexity

PatchIdle ==
    /\ patch = <<>>
    /\ patch_result = NoPatchResult

\* a manager constructed with a max_depth from 0 to the default
SpawnInit ==
    /\ max_depth \in 0..DefaultMaxDepth
    /\ spawn_tree = <<>>
    /\ root_tasks = {}
    /\ call = NoCall
    /\ ChunkIdle
    /\ DepthIdle
    /\ PathIdle
    /\ OutputIdle
    /\ MergeIdle
    /\ ComplexityIdle
    /\ PatchIdle

SpawnNext == RegisterRootTask \/ RegisterSpawn \/ UpdateStatus \/ GetSpawnPath

SpawnSpec == SpawnInit /\ [][SpawnNext]_vars

\* the manager as a pre-validating caller uses it: register_spawn is called
\* only on a request validate_spawn_request has just accepted
ValidatedSpawnNext ==
    RegisterRootTask \/ ValidateSpawnRequest \/ RegisterValidatedSpawn
        \/ UpdateStatus

ValidatedSpawnSpec == SpawnInit /\ [][ValidatedSpawnNext]_vars

\* a ChunkingStrategy constructed with a configuration with
\* chunk_size_tokens >= 1 and 0 <= overlap_tokens < chunk_size_tokens, about
\* to chunk a prompt
ChunkInit ==
    /\ config \in ChunkConfigs
    /\ prompt \in Texts(0..MaxTextLen, 0..MaxTextLen, ChunkDelims)
    /\ cpc = "idle"
    /\ start_char = 0
    /\ chunks = <<>>
    /\ self_chunks = <<>>
    /\ chunk_needed = NotAsked
    /\ break_point = NoBreak
    /\ SpawnIdle
    /\ DepthIdle
    /\ PathIdle
    /\ OutputIdle
    /\ MergeIdle
    /\ ComplexityIdle
    /\ PatchIdle

ChunkNext == CreateChunksCall \/ ChunkLoopIteration \/ CreateChunksReturn

ChunkSpec == ChunkInit /\ [][ChunkNext]_vars

\* the lengths of ChunkDefaultSpec's prompts: short ones, around the chunking
\* threshold (65,000 and 65,001 characters estimate to exactly 50,000 tokens)
\* and up to three chunks
DefaultLens ==
    {1, 32500, 64999, 65000, 65001, 65002, 65003, 123501, 156000}

\* where their delimiters stand: at the start and in the middle of a text
\* under the threshold, at both edges of the quarter-window tolerance around
\* the first cut at 65,000, next to that cut, and around the second cut
DefaultPositions ==
    {0, 16250, 48749, 48750, 64998, 64999, 65000, 65001, 81248, 81249,
     107249, 107250, 123498, 123500}

\* a ChunkingStrategy constructed with the default configuration
\* (50,000 / 5,000 tokens), about to chunk a prompt around or over the threshold
ChunkDefaultInit ==
    /\ config = DefaultConfig
    /\ prompt \in Texts(DefaultLens, DefaultPositions, ChunkDelims)
    /\ cpc = "idle"
    /\ start_char = 0
    /\ chunks = <<>>
    /\ self_chunks = <<>>
    /\ chunk_needed = NotAsked
    /\ break_point = NoBreak
    /\ SpawnIdle
    /\ DepthIdle
    /\ PathIdle
    /\ OutputIdle
    /\ MergeIdle
    /\ ComplexityIdle
    /\ PatchIdle

ChunkDefaultNext ==
    ShouldChunk \/ CreateChunksCall \/ ChunkLoopIteration \/ CreateChunksReturn

ChunkDefaultSpec == ChunkDefaultInit /\ [][ChunkDefaultNext]_vars

\* the length of BreakSpec's texts
BreakLen == 6

\* where their delimiters stand
BreakPositions == {1, 2, 3, 4}

\* the texts of BreakSpec: a letter or a delimiter at every position of
\* BreakPositions, letters elsewhere
BreakTexts ==
    UNION { {[len |-> BreakLen, sp |-> f] : f \in [Q -> Delims]}
            : Q \in SUBSET (BreakPositions \cap (0..(BreakLen - 1))) }

\* the values of max_search: with a quarter of 0, 1 and 2, multiples of four
\* and not
BreakSearches == {1, 4, 6, 8, 10}

\* a ChunkingStrategy about to look for a break point near a position of a
\* text
BreakInit ==
    /\ config = DefaultConfig
    /\ prompt \in BreakTexts
    /\ cpc = "idle"
    /\ start_char = 0
    /\ chunks = <<>>
    /\ self_chunks = <<>>
    /\ chunk_needed = NotAsked
    /\ break_point \in {[called |-> FALSE, target_pos |-> t, max_search |-> m,
                          break_pos |-> 0] :
                            t \in 0..BreakLen, m \in BreakSearches}
    /\ SpawnIdle
    /\ DepthIdle
    /\ PathIdle
    /\ OutputIdle
    /\ MergeIdle
    /\ ComplexityIdle
    /\ PatchIdle

BreakNext == FindBreakPoint

BreakSpec == BreakInit /\ [][BreakNext]_vars

\* a calculator about to score the dependency depth of a compiled prompt
DepthInit ==
    /\ tasks \in TaskLists
    /\ task_deps = EmptyDict
    /\ task_levels = <<>>
    /\ stack = <<>>
    /\ loop_i = 1
    /\ dpc = "idle"
    /\ depth_result = NoDepthResult
    /\ SpawnIdle
    /\ ChunkIdle
    /\ PathIdle
    /\ OutputIdle
    /\ MergeIdle
    /\ ComplexityIdle
    /\ PatchIdle

DepthNext ==
    \/ CalculateCall
    \/ GetLevelCall
    \/ GetLevelEnter
    \/ GetLevelNextDep
    \/ GetLevelMax
    \/ GraphDepthReturn

DepthSpec == DepthInit /\ [][DepthNext]_vars

\* a validator about to validate a path as a path of some type
PathInit ==
    /\ file_path \in Paths \cup LoomOutputPaths
    /\ path_type \in PathTypes
    /\ path_result = NoPathResult
    /\ validator = "validate_file_path"
    /\ files = <<>>
    /\ SpawnIdle
    /\ ChunkIdle
    /\ DepthIdle
    /\ OutputIdle
    /\ MergeIdle
    /\ ComplexityIdle
    /\ PatchIdle

PathNext == ValidateFilePath

PathSpec == PathInit /\ [][PathNext]_vars

\* a validator about to validate a path with one of its path validators
ValidatorInit ==
    /\ file_path \in ValidatorPaths
    /\ path_type \in PathTypes
    /\ path_result = NoPathResult
    /\ validator = "validate_file_path"
    /\ files = <<>>
    /\ SpawnIdle
    /\ ChunkIdle
    /\ DepthIdle
    /\ OutputIdle
    /\ MergeIdle
    /\ ComplexityIdle
    /\ PatchIdle

ValidatorNext ==
    \/ ValidateFilePath
    \/ ValidateUnboundedOutputPath
    \/ ValidateChunkMetadata
    \/ ValidateFilesChanged

ValidatorSpec == ValidatorInit /\ [][ValidatorNext]_vars

\* a handler constructed with a base path
OutputInit ==
    /\ base_path \in OutBasePaths
    /\ out_task_id = <<>>
    /\ out_content = [newlines |-> 0]
    /\ parts = <<>>
    /\ created_files = <<>>
    /\ index_file = NoIndexFile
    /\ opc = "idle"
    /\ splits = 0
    /\ SpawnIdle
    /\ ChunkIdle
    /\ DepthIdle
    /\ PathIdle
    /\ MergeIdle
    /\ ComplexityIdle
    /\ PatchIdle

OutputNext == SplitOutput \/ CreateIndexFile

OutputSpec == OutputInit /\ [][OutputNext]_vars

\* a ChunkingStrategy about to merge the results of up to MaxMergeChunks
\* chunks, each compiled to the same tasks and deliverables, each with a
\* context of its own
MergeInit ==
    /\ \E n \in 0..MaxMergeChunks, ts \in MergeTaskLists,
          ds \in MergeDeliverables :
          \E cs \in [1..n -> MergeContexts] :
             chunk_results =
                [i \in 1..n |-> [intent |-> "intent", tasks |-> ts,
                                 context |-> cs[i], deliverables |-> ds]]
    /\ merged_result = NoMerge
    /\ merges = 0
    /\ SpawnIdle
    /\ ChunkIdle
    /\ DepthIdle
    /\ PathIdle
    /\ OutputIdle
    /\ ComplexityIdle
    /\ PatchIdle

MergeNext == MergeChunkResults

MergeSpec == MergeInit /\ [][MergeNext]_vars

\* a calculator about to score a compiled prompt: a shaped graph with an
\* original prompt of some length, or an acyclic graph in some order
ComplexityInit ==
    /\ \/ tasks \in ShapedTaskLists /\ original_len \in CharCounts
       \/ tasks \in GraphTaskLists /\ original_len = 0
    /\ complexity = NoComplexity
    /\ task_deps = EmptyDict
    /\ task_levels = <<>>
    /\ stack = <<>>
    /\ loop_i = 1
    /\ dpc = "idle"
    /\ depth_result = NoDepthResult
    /\ SpawnIdle
    /\ ChunkIdle
    /\ PathIdle
    /\ OutputIdle
    /\ MergeIdle
    /\ PatchIdle

ComplexityNext ==
    \/ CalculateCall
    \/ GetLevelCall
    \/ GetLevelEnter
    \/ GetLevelNextDep
    \/ GetLevelMax
    \/ GraphDepthReturn
    \/ CalculateReturn

ComplexitySpec == ComplexityInit /\ [][ComplexityNext]_vars

(***************************************************************************)
(* End to end: a prompt is chunked, each chunk is compiled to a result by  *)
(* the caller, the results are merged and the merged graph is scored.      *)
(***************************************************************************)
\* the length of the end-to-end prompt: 156,000 characters, which estimate to
\* 120,000 tokens
PipelineLens == {156000}

\* where its delimiter stands: inside and at the edge of the tolerance around
\* the first cut, and near the second
PipelinePositions == {48750, 64000, 123000}

\* the task lists a chunk is compiled to: distinct ids, and every dependency
\* names another task of the same list, one that depends on nothing
CompiledTaskLists ==
    {ts \in MergeTaskLists :
        /\ \A i, j \in DOMAIN ts : i # j => ts[i].id # ts[j].id
        /\ \A i \in DOMAIN ts :
              \A k \in DOMAIN ts[i].depends_on :
                 \E j \in DOMAIN ts :
                    /\ j # i
                    /\ ts[j].id = ts[i].depends_on[k]
                    /\ ts[j].depends_on = <<>>}

\* the caller compiles every chunk of self.chunks to a result
CompileChunks ==
    /\ cpc = "done"
    /\ chunk_needed.asked
    /\ chunk_needed.answer
    /\ chunk_results = <<>>
    /\ merges = 0
    /\ \E ts \in CompiledTaskLists :
          chunk_results' =
             [i \in DOMAIN self_chunks |->
                [intent |-> "intent", tasks |-> ts, context |-> <<>>,
                 deliverables |-> <<>>]]
    /\ UNCHANGED <<merged_result, merges>>
    /\ UNCHANGED notMergeVars

\* merge_chunk_results(chunk_results, prompt), once, on the compiled results
MergeCompiledChunks ==
    /\ chunk_results # <<>>
    /\ merges = 0
    /\ MergeChunkResults

\* compiled_prompt.get("tasks", []) as calculate reads it: each task's
\* task.get("id") and task.get("depends_on", [])
CompiledTasks(compiled_prompt) ==
    [k \in DOMAIN compiled_prompt.tasks |->
        [id         |-> compiled_prompt.tasks[k].id,
         depends_on |-> IF "depends_on" \in compiled_prompt.tasks[k].keys
                        THEN compiled_prompt.tasks[k].depends_on
                        ELSE <<>>]]

\* the caller passes the merged graph to calculate
CalculateMerged ==
    /\ merges = 1
    /\ merged_result.raised = ""
    /\ ~merged_result.empty
    /\ dpc = "idle"
    /\ original_len = 0
    /\ tasks' = CompiledTasks(merged_result)
    /\ original_len' = merged_result.original.len
    /\ UNCHANGED <<task_deps, task_levels, stack, loop_i, dpc, depth_result,
                   complexity>>
    /\ UNCHANGED <<spawnVars, chunkVars, pathVars, outputVars, mergeVars,
                   patchVars>>

\* calculate's first steps on the graph it was passed
CalculateMergedCall ==
    /\ original_len # 0
    /\ CalculateCall

\* a ChunkingStrategy with the default configuration and a prompt of
\* 156,000 characters, nothing chunked, compiled, merged or scored yet
PipelineInit ==
    /\ config = DefaultConfig
    /\ prompt \in Texts(PipelineLens, PipelinePositions, ChunkDelims)
    /\ cpc = "idle"
    /\ start_char = 0
    /\ chunks = <<>>
    /\ self_chunks = <<>>
    /\ chunk_needed = NotAsked
    /\ break_point = NoBreak
    /\ SpawnIdle
    /\ DepthIdle
    /\ PathIdle
    /\ OutputIdle
    /\ MergeIdle
    /\ ComplexityIdle
    /\ PatchIdle

PipelineNext ==
    \/ ShouldChunk
    \/ CreateChunksCall
    \/ ChunkLoopIteration
    \/ CreateChunksReturn
    \/ CompileChunks
    \/ MergeCompiledChunks
    \/ CalculateMerged
    \/ CalculateMergedCall
    \/ GetLevelCall
    \/ GetLevelEnter
    \/ GetLevelNextDep
    \/ GetLevelMax
    \/ GraphDepthReturn
    \/ CalculateReturn

PipelineSpec == PipelineInit /\ [][PipelineNext]_vars

\* a validator about to validate a patch
PatchInit ==
    /\ patch \in Patches
    /\ patch_result = NoPatchResult
    /\ SpawnIdle
    /\ ChunkIdle
    /\ DepthIdle
    /\ PathIdle
    /\ OutputIdle
    /\ MergeIdle
    /\ ComplexityIdle

PatchNext == ValidatePatch

PatchSpec == PatchInit /\ [][PatchNext]_vars


(***************************************************************************)
(* Properties of the RecursiveSpawnManager (checked under SpawnSpec).      *)
(***************************************************************************)
\* s is a prefix of t
IsPrefix(s, t) == Len(s) <= Len(t) /\ SubSeq(t, 1, Len(s)) = s

\* the step is a successful register_spawn naming a child id that was already
\* in the tree: the call that overwrites a node
OverwritingSpawn ==
    /\ call'.op = "register_spawn"
    /\ call'.ret
    /\ call'.child_task_id \in DOMAIN spawn_tree

\* C1: no node is deeper than max_depth; can_spawn_child(p) is false exactly
\* when p is unknown or depth(p) >= max_depth; and register_spawn returns what
\* can_spawn_child said of the parent before the call, so that a node at depth
\* max_depth (the grandchild when max_depth = 2) spawns nothing.
C1_DepthLimit ==
    /\ [](\A t \in DOMAIN spawn_tree : spawn_tree[t].depth <= max_depth)
    /\ [](\A p \in TaskIds :
            (~can_spawn_child(p)) <=>
                (p \notin DOMAIN spawn_tree \/ spawn_tree[p].depth >= max_depth))
    /\ [][call'.op = "register_spawn" =>
            /\ call'.ret = can_spawn_child(call'.parent_task_id)
            /\ (call'.parent_task_id \in DOMAIN spawn_tree
                /\ spawn_tree[call'.parent_task_id].depth >= max_depth)
                   => ~call'.ret]_vars

\* max_depth = 2, a root has a child that has a grandchild at depth 2, and a
\* register_spawn on the grandchild has just returned false
C1_Witness ==
    /\ max_depth = 2
    /\ call.op = "register_spawn"
    /\ ~call.ret
    /\ LET g == call.parent_task_id
       IN  /\ g \in DOMAIN spawn_tree
           /\ spawn_tree[g].depth = 2
           /\ ~can_spawn_child(g)
           /\ LET c == spawn_tree[g].parent_task_id
              IN  /\ c \in DOMAIN spawn_tree
                  /\ spawn_tree[c].depth = 1
                  /\ spawn_tree[c].parent_task_id \in root_tasks
                  /\ spawn_tree[spawn_tree[c].parent_task_id].depth = 0

\* register_spawn's contract on a step that calls it, with or without the
\* append to the parent's children when the child id is the parent's own
RegisterSpawnContract(appendsToSelf) ==
    LET p == call'.parent_task_id
        c == call'.child_task_id
    IN  IF p \notin DOMAIN spawn_tree \/ spawn_tree[p].depth >= max_depth
        THEN /\ call'.ret = FALSE
             /\ spawn_tree' = spawn_tree
             /\ root_tasks' = root_tasks
        ELSE /\ call'.ret = TRUE
             /\ root_tasks' = root_tasks
             /\ DOMAIN spawn_tree' = (DOMAIN spawn_tree) \cup {c}
             /\ spawn_tree'[c].parent_task_id = p
             /\ spawn_tree'[c].depth = spawn_tree[p].depth + 1
             /\ spawn_tree'[c].status = "pending"
             /\ IF c # p
                THEN spawn_tree'[p] =
                        [spawn_tree[p] EXCEPT !.children = Append(@, c)]
                ELSE IF appendsToSelf
                     THEN spawn_tree'[p].children =
                              Append(spawn_tree[p].children, c)
                     ELSE spawn_tree'[p].children = <<>>
             /\ \A t \in (DOMAIN spawn_tree) \ {p, c} :
                    spawn_tree'[t] = spawn_tree[t]

\* C2 as claimed: register_spawn returns false and changes nothing when the
\* parent is unknown or at depth >= max_depth; otherwise it returns true, creates
\* the child node (parent, depth + 1, pending) and appends the child to the end
\* of the parent's children list, changing no other node.
C2_AsClaimed ==
    [][call'.op = "register_spawn" => RegisterSpawnContract(TRUE)]_vars

\* C2 as amended: the same, except that the append to the parent's children
\* list happens only when the child id differs from the parent id; when they
\* are equal the parent's node is replaced by the new node, whose children list
\* is empty.
C2_RegisterSpawn ==
    [][call'.op = "register_spawn" => RegisterSpawnContract(FALSE)]_vars

\* a register_spawn has just appended a second child to a parent's children
C2_Witness ==
    /\ call.op = "register_spawn"
    /\ call.ret
    /\ call.parent_task_id # call.child_task_id
    /\ LET ch == spawn_tree[call.parent_task_id].children
       IN  /\ Len(ch) = 2
           /\ ch[2] = call.child_task_id
           /\ ch[1] # ch[2]

\* the spawn tree is a forest: every root is a node of depth 0 without parent,
\* and every id in a children list is a node whose parent is the owner of the
\* list, one level deeper
Forest ==
    /\ \A r \in root_tasks :
          /\ r \in DOMAIN spawn_tree
          /\ spawn_tree[r].depth = 0
          /\ spawn_tree[r].parent_task_id = None
    /\ \A p \in DOMAIN spawn_tree :
          \A i \in 1..Len(spawn_tree[p].children) :
             LET c == spawn_tree[p].children[i]
             IN  /\ c \in DOMAIN spawn_tree
                 /\ spawn_tree[c].parent_task_id = p
                 /\ spawn_tree[c].depth = spawn_tree[p].depth + 1

\* C3 as claimed: in every reachable state, calls that reuse an id included,
\* the spawn tree is a forest.
C3_AsClaimed == Forest

\* C3 as amended: the empty tree is a forest, and every call other than a
\* successful register_spawn whose child id is already in the tree takes a
\* forest to a forest; so the tree is a forest in every state reached without
\* such a call.
C3_ForestKept ==
    /\ Forest
    /\ [][(Forest /\ ~OverwritingSpawn) => Forest']_vars

\* a forest with a root, its child and its grandchild, just after the spawn of
\* the grandchild
C3_Witness ==
    /\ Forest
    /\ call.op = "register_spawn"
    /\ call.ret
    /\ spawn_tree[call.child_task_id].depth = 2
    /\ spawn_tree[call.parent_task_id].depth = 1
    /\ spawn_tree[call.parent_task_id].children = <<call.child_task_id>>
    /\ spawn_tree[call.parent_task_id].parent_task_id \in root_tasks

\* every node of the tree before the step is still there after it, with the
\* same parent and depth, and with the children it had followed by zero or more
\* appended ids
NodesKept ==
    \A t \in DOMAIN spawn_tree :
       /\ t \in DOMAIN spawn_tree'
       /\ spawn_tree'[t].parent_task_id = spawn_tree[t].parent_task_id
       /\ spawn_tree'[t].depth = spawn_tree[t].depth
       /\ IsPrefix(spawn_tree[t].children, spawn_tree'[t].children)

\* C4 as claimed: every step of register_root_task, register_spawn and
\* update_status keeps every node (same parent and depth) and only appends to
\* its children.
C4_AsClaimed == [][NodesKept]_vars

\* C4 as amended: every step other than a successful register_spawn whose child
\* id is already in the tree keeps every node and only appends to its children.
C4_NodesKept == [][~OverwritingSpawn => NodesKept]_vars

\* a second child has just been appended behind the first one
C4_Witness ==
    /\ call.op = "register_spawn"
    /\ call.ret
    /\ Len(spawn_tree[call.parent_task_id].children) = 2
    /\ spawn_tree[call.parent_task_id].children[2] = call.child_task_id
    /\ spawn_tree[call.parent_task_id].children[1] \in DOMAIN spawn_tree
    /\ call.child_task_id # call.parent_task_id
    /\ spawn_tree[call.parent_task_id].parent_task_id = None


(***************************************************************************)
(* Properties of ChunkingStrategy.create_chunks (checked under ChunkSpec,  *)
(* every configuration with chunk_size_tokens >= 1 and                     *)
(* 0 <= overlap_tokens < chunk_size_tokens, and under ChunkDefaultSpec,    *)
(* the default configuration).                                             *)
(***************************************************************************)
\* C5: in every iteration of create_chunks' loop the cut end_char is strictly
\* greater than start_char, and the next start_char is strictly greater than
\* the current one and never negative (so the loop ends), for every
\* configuration with chunk_size_tokens >= 1 and
\* 0 <= overlap_tokens < chunk_size_tokens.
C5_AsClaimed ==
    [][(cpc = "loop" /\ cpc' = "loop") =>
          /\ chunks'[Len(chunks')].end_char > start_char
          /\ start_char' > start_char
          /\ start_char' >= 0]_vars

\* t with its last k characters removed
DropTail(t, k) == Slice(t, 0, Max(t.len - k, 0))

RECURSIVE Rejoin(_)
\* the chunks' contents, each without its trailing overlap_with_next
\* characters, concatenated
Rejoin(cs) ==
    IF cs = <<>> THEN EmptyText
    ELSE Concat(DropTail(Head(cs).content, Head(cs).overlap_with_next),
                Rejoin(Tail(cs)))

\* c.content is text[c.start_char : c.end_char], character by character
ContentIsSlice(c, text) ==
    /\ 0 <= c.start_char
    /\ c.start_char <= c.end_char
    /\ c.end_char <= text.len
    /\ c.content.len = c.end_char - c.start_char
    /\ \A k \in 0..(c.content.len - 1) :
          (k \in DOMAIN c.content.sp \/ (c.start_char + k) \in DOMAIN text.sp)
             => CharAt(c.content, k) = CharAt(text, c.start_char + k)

\* C6: for a text over the chunking threshold chunked with the default
\* configuration, the first chunk starts at 0, the last chunk ends at len(text),
\* every chunk's content is text[start_char:end_char], and the contents without
\* their trailing overlaps, concatenated, are the text.
C6_Rejoin ==
    (cpc = "done" /\ config = DefaultConfig /\ should_chunk(prompt)) =>
        /\ self_chunks # <<>>
        /\ self_chunks[1].start_char = 0
        /\ self_chunks[Len(self_chunks)].end_char = prompt.len
        /\ \A i \in 1..Len(self_chunks) : ContentIsSlice(self_chunks[i], prompt)
        /\ Rejoin(self_chunks) = prompt

\* a text over the threshold has been cut in three chunks, the first cut moved
\* from the naive offset to a delimiter, and the text has a delimiter inside
\* an overlap
C6_Witness ==
    /\ cpc = "done"
    /\ config = DefaultConfig
    /\ should_chunk(prompt)
    /\ Len(self_chunks) = 3
    /\ self_chunks[1].end_char # chunk_size_chars(config, prompt)
    /\ self_chunks[1].overlap_with_next > 0
    /\ prompt.sp # <<>>
    /\ Rejoin(self_chunks) = prompt

\* what C7 says of the chunk list cs returned for text under cfg; onlyZero
\* tells whether the final chunk must be the only one with overlap_with_next = 0
OverlapExact(cs, cfg, text, onlyZero) ==
    /\ \A i \in 1..(Len(cs) - 1) :
          LET a == cs[i]
              b == cs[i + 1]
              o == a.overlap_with_next
          IN  /\ a.end_char - o = b.start_char
              /\ o = overlap_chars(cfg, text)
              /\ o <= a.content.len
              /\ o <= b.content.len
              /\ Slice(a.content, a.content.len - o, a.content.len)
                    = Slice(b.content, 0, o)
              /\ ~a.is_last
              /\ onlyZero => o # 0
    /\ cs # <<>> =>
          /\ cs[Len(cs)].overlap_with_next = 0
          /\ cs[Len(cs)].is_last

DependsOn(val, t) == {val[t][i] : i \in DOMAIN val[t]} \cap DOMAIN val

RECURSIVE ReachableIn(_, _, _)
\* the tasks reached from those of S by up to n more depends_on steps
ReachableIn(val, S, n) ==
    IF n = 0 THEN S
    ELSE ReachableIn(val, S \cup UNION {DependsOn(val, t) : t \in S}, n - 1)

\* the depends_on relation of the tasks has a cycle
Cyclic(val) ==
    \E t \in DOMAIN val :
        t \in ReachableIn(val, DependsOn(val, t), Cardinality(DOMAIN val))

\* C8, as claimed: the recursion of the dependency-depth computation is never
\* cut off by the interpreter's recursion limit, and on a task graph whose
\* depends_on relation has a cycle the computation ends in a cyclic-dependency
\* fault of its own (the runs that max() of an empty sequence ends are C9's,
\* and are left aside here).
C8_AsClaimed ==
    /\ depth_result.kind # "RecursionError"
    /\ (dpc = "done" /\ Cyclic(task_deps.val) /\ depth_result.kind # "ValueError")
          => depth_result.kind = "cyclic dependency"

\* every dependency of t is the id of no task
AllUnknown(val, t) == val[t] # <<>> /\ DependsOn(val, t) = {}

\* C9, as claimed: on an acyclic task graph the dependency-depth computation
\* ends with a score, never a fault, and a task all of whose dependencies are
\* unknown ids has level 1, as a task with no dependencies has.
C9_AsClaimed ==
    (dpc = "done" /\ tasks # <<>> /\ ~Cyclic(task_deps.val)) =>
        /\ depth_result.kind = "score"
        /\ \A t \in DOMAIN task_deps.val :
              (task_deps.val[t] = <<>> \/ AllUnknown(task_deps.val, t))
                  => task_levels[t] = 1

(***************************************************************************)
(* Properties of LoomRLMValidator.validate_file_path (checked under        *)
(* PathSpec).                                                              *)
(***************************************************************************)
\* the four rules, each by itself: the path breaks the rule
HasParentReference(p) == StrContains(p, DotDot)

HasSystemPrefix(p) ==
    \E i \in DOMAIN dangerous_prefixes : StartsWith(p, dangerous_prefixes[i])

HasForbidden(p) ==
    \E i \in DOMAIN forbidden_patterns :
        StrContains(Lower(p), forbidden_patterns[i])

BreaksTypeRule(p, t) == ~TypeCheck(p, t).valid

\* C10: validate_file_path returns invalid with the message of the first rule
\* broken, in the order parent-directory reference, system prefix, forbidden
\* substring, type-specific pattern; so a path with ".." gets the
\* directory-traversal message for every path type, whatever else it breaks,
\* and a path is accepted exactly when it breaks none of the four rules.
C10_RuleOrder ==
    path_result # NoPathResult =>
        LET r1 == HasParentReference(file_path)
            r2 == HasSystemPrefix(file_path)
            r3 == HasForbidden(file_path)
            r4 == BreaksTypeRule(file_path, path_type)
            text == path_result.message[1]
        IN  /\ r1 => /\ ~path_result.valid
                     /\ text = "Path contains '..' (directory traversal attack)"
            /\ (~r1 /\ r2) =>
                     /\ ~path_result.valid
                     /\ text = "Path targets system directory: "
                     /\ StartsWith(file_path, path_result.message[2])
            /\ (~r1 /\ ~r2 /\ r3) =>
                     /\ ~path_result.valid
                     /\ text = "Path contains forbidden pattern: "
                     /\ StrContains(Lower(file_path), path_result.message[2])
            /\ (~r1 /\ ~r2 /\ ~r3 /\ r4) =>
                     /\ ~path_result.valid
                     /\ path_result = TypeCheck(file_path, path_type)
            /\ path_result.valid <=> ~(r1 \/ r2 \/ r3 \/ r4)
            /\ path_result.valid => path_result.message = <<"">>

\* C10's case: a path that breaks all four rules has been rejected
C10_Witness ==
    /\ path_result # NoPathResult
    /\ ~path_result.valid
    /\ HasParentReference(file_path)
    /\ HasSystemPrefix(file_path)
    /\ HasForbidden(file_path)
    /\ BreaksTypeRule(file_path, path_type)

(***************************************************************************)
(* Properties of UnboundedOutputHandler (checked under OutputSpec).        *)
(***************************************************************************)
\* C11, as claimed: every part path split_output returns and the index path
\* create_index_file returns, of a handler constructed with the default base
\* path, is accepted by validate_unbounded_output_path.
C11_AsClaimed ==
    base_path = DefaultBasePath =>
        /\ \A k \in DOMAIN created_files :
              validate_unbounded_output_path(created_files[k]).valid
        /\ index_file # NoIndexFile =>
              validate_unbounded_output_path(index_file.path).valid

\* the least number of parts of size b that hold a lines
CeilDiv(a, b) == IF a % b = 0 THEN a \div b ELSE (a \div b) + 1

\* C12: split_output makes ceil(total_lines / 10000) >= 1 parts numbered 1, 2,
\* ...; their 1-indexed inclusive line ranges start at line 1, follow one
\* another with no gap and no overlap and end at total_lines; every part but
\* the last has 10,000 lines, line_count = end_line - start_line + 1 and the
\* line counts sum to total_lines; 25,000 lines give [1,10000], [10001,20000],
\* [20001,25000].
C12_LineRanges ==
    opc = "split" =>
        LET total_lines == TotalLines(out_content)
            n == Len(parts)
        IN  /\ n = CeilDiv(total_lines, 10000)
            /\ n >= 1
            /\ \A i \in 1..n :
                  /\ parts[i].part_number = i
                  /\ parts[i].line_count
                        = parts[i].end_line - parts[i].start_line + 1
                  /\ i < n => /\ parts[i].line_count = 10000
                              /\ parts[i].end_line = parts[i + 1].start_line - 1
            /\ parts[1].start_line = 1
            /\ parts[n].end_line = total_lines
            /\ SumLineCounts(parts, n) = total_lines
            /\ total_lines = 25000 =>
                  [i \in 1..n |-> <<parts[i].start_line, parts[i].end_line>>]
                     = <<<<1, 10000>>, <<10001, 20000>>, <<20001, 25000>>>>

\* C12's case: a content of 25,000 lines has been split, into three parts
C12_Witness ==
    /\ opc = "split"
    /\ TotalLines(out_content) = 25000
    /\ Len(parts) = 3
    /\ parts[3].line_count = 5000

(***************************************************************************)
(* Properties of get_spawn_path and update_status (checked under           *)
(* SpawnSpec).                                                             *)
(***************************************************************************)
\* every node without a parent has depth 0, and the parent of every other node
\* is a node of the tree, of depth one less
WellParented ==
    \A t \in DOMAIN spawn_tree :
        LET n == spawn_tree[t]
        IN  IF n.parent_task_id = None THEN n.depth = 0
            ELSE /\ n.parent_task_id \in DOMAIN spawn_tree
                 /\ spawn_tree[n.parent_task_id].depth = n.depth - 1

\* what get_spawn_path just did: for an unknown id it returned the empty list;
\* for a known id, in the states of known, it returned the list from a root to
\* the id, each element the parent of the next, depth + 1 elements long
SpawnPathContract(known) ==
    call.op = "get_spawn_path" =>
        LET t == call.task_id
            p == call.path
        IN  IF t \notin DOMAIN spawn_tree
            THEN call.returns /\ p = <<>>
            ELSE known =>
                    /\ call.returns
                    /\ Len(p) = spawn_tree[t].depth + 1
                    /\ p[Len(p)] = t
                    /\ spawn_tree[p[1]].parent_task_id = None
                    /\ \A i \in 1..(Len(p) - 1) :
                          spawn_tree[p[i + 1]].parent_task_id = p[i]

\* C13, as claimed: in every reachable state, calls that reuse an id included,
\* get_spawn_path(t) returns: the empty list for an unknown id, and for a known
\* id the list from a root to t, each element the parent of the next,
\* depth(t) + 1 elements long.
C13_AsClaimed == SpawnPathContract(TRUE)

\* C13, as amended: that holds in the states where every node's parent is a
\* node of depth one less; the empty tree is such a state and every call other
\* than a successful register_spawn whose child id is already in the tree
\* keeps the tree so.
C13_SpawnPath ==
    /\ [](SpawnPathContract(WellParented))
    /\ WellParented
    /\ [][(WellParented /\ ~OverwritingSpawn) => WellParented']_vars

\* C13's case: the path of a grandchild has been returned
C13_Witness ==
    /\ call.op = "get_spawn_path"
    /\ WellParented
    /\ call.returns
    /\ Len(call.path) = 3
    /\ spawn_tree[call.task_id].depth = 2

Statuses == {"pending", "running", "completed", "failed"}

\* the statuses that may follow s: pending -> running -> {completed, failed}
Following(s) ==
    IF s = "pending" THEN {"running"}
    ELSE IF s = "running" THEN {"completed", "failed"}
    ELSE {}

\* a node is created pending, and every node has one of the four statuses
StatusAtCreation ==
    /\ \A t \in DOMAIN spawn_tree : spawn_tree[t].status \in Statuses
    /\ \A t \in (DOMAIN spawn_tree') \ (DOMAIN spawn_tree) :
          spawn_tree'[t].status = "pending"

\* update_status on an unknown id changes nothing
UnknownUnchanged ==
    (call'.op = "update_status" /\ call'.task_id \notin DOMAIN spawn_tree)
        => UNCHANGED <<max_depth, spawn_tree, root_tasks>>

MergedIds(m) == [k \in DOMAIN m.tasks |-> m.tasks[k].id]

\* their depends_on, in order
MergedDeps(m) == [k \in DOMAIN m.tasks |-> m.tasks[k].depends_on]

\* merge_chunk_results returned a graph here
ReturnedGraph(m) == m.raised = "" /\ ~m.empty

\* C15: merging the same chunk results a second time yields the same task ids
\* and the same depends_on references as the first merge.
C15_AsClaimed ==
    [][IF /\ merges = 1 /\ merges' = 2
          /\ ReturnedGraph(merged_result) /\ ReturnedGraph(merged_result')
       THEN /\ MergedIds(merged_result') = MergedIds(merged_result)
            /\ MergedDeps(merged_result') = MergedDeps(merged_result)
       ELSE TRUE]_vars

\* the hypothesis of C16 on one chunk result: distinct task ids, no task
\* depending on itself, every dependency naming a task of the chunk
WellFormedChunk(result) ==
    LET ts == result.tasks
    IN  /\ \A i, j \in DOMAIN ts : i # j => ts[i].id # ts[j].id
        /\ \A i \in DOMAIN ts : \A k \in DOMAIN ts[i].depends_on :
              /\ ts[i].depends_on[k] # ts[i].id
              /\ \E j \in DOMAIN ts : ts[j].id = ts[i].depends_on[k]

\* the conclusion of C16 on a merged graph: every dependency is the id of a
\* task of the graph, in the same chunk or an earlier one, and no task depends
\* on itself; the tasks are in chunk order
ClosedGraph(m) ==
    LET ts == m.tasks
    IN  /\ \A i \in DOMAIN ts : \A k \in DOMAIN ts[i].depends_on :
              /\ ts[i].depends_on[k] # ts[i].id
              /\ \E j \in DOMAIN ts :
                    /\ ts[j].id = ts[i].depends_on[k]
                    /\ ts[j].chunk_id <= ts[i].chunk_id
        /\ \A i, j \in DOMAIN ts : i < j => ts[i].chunk_id <= ts[j].chunk_id

\* C16: when every chunk result has distinct task ids, no self-dependency and
\* only dependencies on tasks of the same chunk, the graph merge_chunk_results
\* returns has every dependency naming a task it holds, of the same chunk or an
\* earlier one, no self-dependency, and its tasks in chunk order.
C16_AsClaimed ==
    [][IF /\ merges = 0 /\ merges' = 1
          /\ \A i \in DOMAIN chunk_results : WellFormedChunk(chunk_results[i])
          /\ ReturnedGraph(merged_result')
       THEN ClosedGraph(merged_result')
       ELSE TRUE]_vars

\* C17: merge_chunk_results leaves the chunk results passed to it unchanged.
C17_AsClaimed == [][chunk_results' = chunk_results]_vars

(***************************************************************************)
(* ComplexityCalculator.calculate: the overall score and the iteration     *)
(* budget (C18), the dependency depth (C19); checked under ComplexitySpec. *)
(***************************************************************************)
\* the weighted sum of four factor scores, in thousandths
WeightedSum(factors) ==
    30 * factors.task_count + 30 * factors.dependency_depth
    + 20 * factors.input_size + 20 * factors.task_diversity

\* the budget of the bins [0,0.3) -> 3, [0.3,0.6) -> 5, [0.6,0.8) -> 7,
\* [0.8,1.0] -> 10, for a score in thousandths
BinOf(thousandths) ==
    IF thousandths < 300 THEN 3
    ELSE IF thousandths < 600 THEN 5
    ELSE IF thousandths < 800 THEN 7
    ELSE 10

\* C18: whenever calculate returns, the weighted sum 0.30*task_count +
\* 0.30*dependency_depth + 0.20*input_size + 0.20*task_diversity of its factors
\* lies in [0,1] and max_iterations is the budget of the bin the sum falls in:
\* 3 below 0.3, 5 from 0.3, 7 from 0.6, 10 from 0.8 up to 1.0.
C18_AsClaimed ==
    complexity.kind = "score" =>
        /\ WeightedSum(complexity.factors) \in 0..1000
        /\ complexity.max_iterations = BinOf(WeightedSum(complexity.factors))

\* every dependency is the id of a task
AllKnown(val) ==
    \A t \in DOMAIN val : \A i \in DOMAIN val[t] : val[t][i] \in DOMAIN val

RECURSIVE LayersFrom(_, _)
\* how many layers the tasks outside done make, a layer being the tasks all of
\* whose dependencies are in the layers before: the number of tasks on the
\* longest dependency chain of an acyclic graph
LayersFrom(val, done) ==
    IF done = DOMAIN val THEN 0
    ELSE 1 + LayersFrom(val, done \cup {t \in (DOMAIN val) \ done :
                                          DependsOn(val, t) \subseteq done})

\* the dependency-depth factor claimed for a depth, in tenths
ClaimedDepthFactor(depth) ==
    CASE depth <= 1 -> 0
      [] depth = 2 -> 3
      [] depth = 3 -> 6
      [] depth = 4 -> 8
      [] OTHER -> 10

\* C19: on an acyclic task graph whose dependencies are all known task ids the
\* dependency-depth computation ends with the number of tasks on the longest
\* dependency chain as its depth, whatever the order of the tasks, and with
\* the factor 0.0 for depth <= 1, 0.3 for 2, 0.6 for 3, 0.8 for 4, 1.0 from 5.
C19_AsClaimed ==
    (dpc = "done" /\ tasks # <<>>
     /\ ~Cyclic(task_deps.val) /\ AllKnown(task_deps.val)) =>
        /\ depth_result.kind = "score"
        /\ depth_result.depth = LayersFrom(task_deps.val, {})
        /\ depth_result.score = ClaimedDepthFactor(depth_result.depth)

(***************************************************************************)
(* validate_patch (C20), checked under PatchSpec.                          *)
(***************************************************************************)
\* validate_patch returned, and accepted the patch
PatchAccepted == patch_result.raised = "" /\ patch_result.valid

\* validate_patch returned, and rejected the patch
PatchRejected == patch_result.raised = "" /\ ~patch_result.valid

\* the patch has this action
HasAction(name) ==
    "action" \in DOMAIN patch /\ patch.action.type = "str" /\ patch.action.str = name

\* d has the key, with a value that is not None, "", 0 or empty
HasNonEmpty(d, key) ==
    /\ key \in DOMAIN d
    /\ d[key] \notin {NoneValue, StrValue(<<>>), IntValue(0), DictValue(<<>>),
                      ListValue(<<>>)}

\* what C20 says of every action but update_intent: an accepted patch has an
\* allow-listed action; accepted update_task and remove_task patches have a
\* non-empty task_id; an accepted add_task patch has a task with a non-empty
\* id and an outputs_to that validate_file_path accepts as an output path; a
\* rejection has a message that is not empty
PatchRules ==
    /\ PatchAccepted => \E name \in ALLOWED_PATCH_ACTIONS : HasAction(name)
    /\ (PatchAccepted /\ (HasAction(<<"u", "p", "d", "a", "t", "e", "_", "t", "a", "s", "k">>) \/ HasAction(<<"r", "e", "m", "o", "v", "e", "_", "t", "a", "s", "k">>)))
          => HasNonEmpty(patch, "task_id")
    /\ (PatchAccepted /\ HasAction(<<"a", "d", "d", "_", "t", "a", "s", "k">>)) =>
          /\ "task" \in DOMAIN patch
          /\ patch.task.type = "dict"
          /\ HasNonEmpty(patch.task.dict, "id")
          /\ "outputs_to" \in DOMAIN patch.task.dict
          /\ patch.task.dict.outputs_to.type = "str"
          /\ validate_file_path(patch.task.dict.outputs_to.str, "output").valid
    /\ PatchRejected => (patch_result.message # <<>> /\ patch_result.message[1] # "")

\* C20, as claimed: an accepted patch has one of the five allow-listed
\* actions; accepted update_task, add_task and remove_task patches name a
\* non-empty task id; an accepted add_task patch has an outputs_to that
\* validate_file_path accepts as an output path; an accepted update_intent
\* patch has a payload, new_intent, that is a mapping; every rejection has a
\* non-empty message.
C20_AsClaimed ==
    patch_result # NoPatchResult =>
        /\ PatchRules
        /\ (PatchAccepted /\ HasAction(<<"u", "p", "d", "a", "t", "e", "_", "i", "n", "t", "e", "n", "t">>)) =>
              ("new_intent" \in DOMAIN patch /\ patch.new_intent.type = "dict")

\* C20, corrected: the same, but an accepted update_intent patch has a
\* new_intent that is a mapping or has no new_intent at all.
C20_PatchRules ==
    patch_result # NoPatchResult =>
        /\ PatchRules
        /\ (PatchAccepted /\ HasAction(<<"u", "p", "d", "a", "t", "e", "_", "i", "n", "t", "e", "n", "t">>)) =>
              ("new_intent" \in DOMAIN patch => patch.new_intent.type = "dict")

\* C20's case: add_task patches, one accepted with its outputs_to an output
\* path; here an accepted one
C20_Witness ==
    /\ PatchAccepted
    /\ HasAction(<<"a", "d", "d", "_", "t", "a", "s", "k">>)
    /\ patch.task.dict.id = StrValue(<<"t", "1">>)
    /\ patch.task.dict.outputs_to.str = OutputPrefix \o <<"a", "_", "1">> \o DotPy

(***************************************************************************)
(* Properties of should_chunk and create_chunks at and under the           *)
(* threshold (checked under ChunkDefaultSpec).                             *)
(***************************************************************************)
\* int(len(text) / 1.3) > 50,000, said of the length: len / 1.3 >= 50,001
OverThreshold(text) ==
    MultiplierDen * text.len >= MultiplierNum * (CHUNKING_THRESHOLD_TOKENS + 1)

\* C21: should_chunk(text) is true exactly when int(len(text) / 1.3) is
\* strictly greater than 50,000, and for every non-empty text at or under the
\* threshold create_chunks with the default configuration returns exactly one
\* chunk, covering [0, len(text)), flagged first and last, with
\* overlap_with_next = 0.
C21_NoSplitUnderThreshold ==
    /\ chunk_needed.asked => (chunk_needed.answer <=> OverThreshold(prompt))
    /\ (cpc = "done" /\ config = DefaultConfig /\ prompt.len > 0
          /\ ~OverThreshold(prompt)) =>
          /\ Len(self_chunks) = 1
          /\ self_chunks[1].start_char = 0
          /\ self_chunks[1].end_char = prompt.len
          /\ self_chunks[1].content = prompt
          /\ self_chunks[1].is_first
          /\ self_chunks[1].is_last
          /\ self_chunks[1].overlap_with_next = 0

\* a text of 65,001 characters, estimated at exactly 50,000 tokens, with a
\* delimiter in it: should_chunk answered false and create_chunks returned
C21_Witness ==
    /\ cpc = "done"
    /\ prompt.len = 65001
    /\ prompt.sp # <<>>
    /\ estimate_tokens(prompt) = CHUNKING_THRESHOLD_TOKENS
    /\ chunk_needed.asked
    /\ ~chunk_needed.answer
    /\ Len(self_chunks) = 1

(***************************************************************************)
(* Properties of register_root_task (checked under SpawnSpec).             *)
(***************************************************************************)
\* C22: register_root_task with an id that is already in the spawn tree, as
\* a root or as a spawned child, leaves spawn_tree and root_tasks unchanged;
\* with a new id it adds exactly one node with depth 0, no parent, no children
\* and status pending, and adds the id to root_tasks.
C22_RootIdempotent ==
    [][IF call'.op = "register_root_task"
       THEN IF call'.task_id \in DOMAIN spawn_tree
            THEN /\ spawn_tree' = spawn_tree
                 /\ root_tasks' = root_tasks
            ELSE /\ DOMAIN spawn_tree' = DOMAIN spawn_tree \cup {call'.task_id}
                 /\ \A t \in DOMAIN spawn_tree : spawn_tree'[t] = spawn_tree[t]
                 /\ spawn_tree'[call'.task_id] =
                       [task_id |-> call'.task_id, parent_task_id |-> None,
                        depth |-> 0, role |-> call'.role, children |-> <<>>,
                        status |-> "pending"]
                 /\ root_tasks' = root_tasks \cup {call'.task_id}
       ELSE TRUE]_vars

\* register_root_task has just been called with the id of a spawned child that
\* is running, has a child of its own and has another role than the one
\* passed, next to a root registered before
C22_Witness ==
    /\ call.op = "register_root_task"
    /\ call.task_id \in DOMAIN spawn_tree
    /\ call.task_id \notin root_tasks
    /\ spawn_tree[call.task_id].parent_task_id # None
    /\ spawn_tree[call.task_id].depth = 1
    /\ spawn_tree[call.task_id].status = "running"
    /\ spawn_tree[call.task_id].children # <<>>
    /\ spawn_tree[call.task_id].role # call.role
    /\ root_tasks # {}

(***************************************************************************)
(* Properties of the index of an unbounded output (checked under           *)
(* OutputSpec).                                                            *)
(***************************************************************************)
\* the parts of a content of n lines of a task, said of n: part k holds the
\* lines (k - 1) * 10000 + 1 to min(k * 10000, n) and is the file
\* <base_path>/<task_id>_part_<k>.py
PartsOf(task_id, n) ==
    [k \in 1..CeilDiv(n, 10000) |->
        [part_number |-> k,
         start_line  |-> (k - 1) * 10000 + 1,
         end_line    |-> Min(k * 10000, n),
         line_count  |-> Min(k * 10000, n) - (k - 1) * 10000,
         file_path   |-> base_path \o <<"/">> \o task_id \o PartInfix
                             \o DecimalString(k) \o DotPy]]

\* C23: after any sequence of split_output calls on one handler, the
\* handler's parts describe only the most recent split, and create_index_file
\* lists exactly those parts in order with their number, line range and path,
\* with total_parts equal to their number and total_lines equal to the line
\* count of the most recently split content.
C23_LatestSplit ==
    /\ [](opc = "split" =>
             parts = PartsOf(out_task_id, TotalLines(out_content)))
    /\ [][IF opc = "split" /\ index_file' # index_file
          THEN /\ index_file'.parts = PartsOf(out_task_id, TotalLines(out_content))
               /\ index_file'.total_parts = Len(parts)
               /\ index_file'.total_lines = TotalLines(out_content)
               /\ DOMAIN index_file'.listing = DOMAIN parts
               /\ \A k \in DOMAIN parts :
                     /\ index_file'.listing[k].part_number = k
                     /\ index_file'.listing[k].start_line = parts[k].start_line
                     /\ index_file'.listing[k].end_line = parts[k].end_line
                     /\ EndsWith(parts[k].file_path,
                                 <<"/">> \o index_file'.listing[k].name)
          ELSE TRUE]_vars

\* a second content has been split on the handler, one of 25,000 lines, and
\* the index made after it lists its three parts
C23_Witness ==
    /\ splits = 2
    /\ TotalLines(out_content) = 25000
    /\ Len(parts) = 3
    /\ index_file # NoIndexFile
    /\ index_file.total_parts = 3
    /\ index_file.total_lines = 25000
    /\ index_file.parts[3].file_path = parts[3].file_path

(***************************************************************************)
(* Properties of validate_file_path on output paths (checked under         *)
(* PathSpec).                                                              *)
(***************************************************************************)
\* loom/outputs/<one or more of a-z and _>_<one or more digits>.py
IsLoomOutputName(p) ==
    PrefixAndPy(p, LoomOutputs) /\ IsNameAndNumber(Middle(p, LoomOutputs))

\* C24, as claimed: validate_file_path with path type "output" accepts
\* "loom/outputs/coder_1.py", and every path of the form
\* loom/outputs/<one or more of a-z and _>_<one or more digits>.py that
\* contains no forbidden substring.
C24_AsClaimed ==
    (/\ path_result # NoPathResult
     /\ path_type = "output"
     /\ IsLoomOutputName(file_path)
     /\ ~HasForbidden(file_path)) => path_result.valid

(***************************************************************************)
(* Properties of the path validators together (checked under               *)
(* ValidatorSpec).                                                         *)
(***************************************************************************)
\* the paths the call that returned path_result was given
ValidatedPaths ==
    IF validator = "validate_files_changed"
    THEN {files[i] : i \in DOMAIN files}
    ELSE {file_path}

\* C28, as claimed: every path accepted by validate_file_path (any type), by
\* validate_unbounded_output_path, by validate_chunk_metadata or by
\* validate_files_changed contains no '..', does not start with a system-root
\* prefix and contains none of the forbidden substrings.
C28_AsClaimed ==
    (path_result # NoPathResult /\ path_result.valid) =>
        \A p \in ValidatedPaths :
            /\ ~HasParentReference(p)
            /\ ~HasSystemPrefix(p)
            /\ ~HasForbidden(p)

(***************************************************************************)
(* Properties of calculate on an empty task graph (checked under           *)
(* ComplexitySpec).                                                        *)
(***************************************************************************)
\* calculate returned a score for a graph with zero tasks whose task-count,
\* task-diversity and dependency-depth factors are 0 and whose overall score
\* is 0 when the original text is under 10,000 characters
EmptyGraphDefaults ==
    /\ complexity.kind = "score"
    /\ complexity.factors.task_count = 0
    /\ complexity.factors.task_diversity = 0
    /\ complexity.factors.dependency_depth = 0
    /\ original_len < 10000 => complexity.overall_score = FloatZero

\* C26, as claimed: calculate on a task graph with zero tasks never fails, the
\* task-count, task-diversity and dependency-depth factors are all 0, the
\* overall score is 0 when the original text is under 10,000 characters, and
\* the reasoning list is empty.
C26_AsClaimed ==
    (complexity # NoComplexity /\ tasks = <<>>) =>
        /\ EmptyGraphDefaults
        /\ complexity.reasoning = <<>>

(***************************************************************************)
(* Properties of the context merge of merge_chunk_results (checked under   *)
(* MergeSpec).                                                             *)
(***************************************************************************)
\* the values the chunk results write for a context key, in chunk order
Written(results, key) ==
    LET Writes(r) == key \in DOMAIN r.context
        writers == SelectSeq(results, Writes)
    IN  [i \in DOMAIN writers |-> writers[i].context[key]]

RECURSIVE ClaimedJoin(_, _)
\* the first n of written values of one type, merged as claimed: the first
\* scalar, the lists one after the other, the maps with later entries over
\* earlier ones
ClaimedJoin(vs, n) ==
    IF n = 1 THEN vs[1]
    ELSE LET before == ClaimedJoin(vs, n - 1)
         IN  IF vs[n].type = "list"
             THEN [type |-> "list", list |-> before.list \o vs[n].list]
             ELSE IF vs[n].type = "dict"
             THEN [type |-> "dict",
                   dict |-> [x \in (DOMAIN before.dict) \cup (DOMAIN vs[n].dict) |->
                               IF x \in DOMAIN vs[n].dict THEN vs[n].dict[x]
                               ELSE before.dict[x]]]
             ELSE before

\* the merged context has key exactly when a chunk result writes it, and when
\* the written values are of one type its value is their claimed join
ContextAsClaimed(results, merged, key) ==
    LET vs == Written(results, key)
    IN  IF vs = <<>> THEN key \notin DOMAIN merged.context
        ELSE /\ key \in DOMAIN merged.context
             /\ (\A i \in DOMAIN vs : vs[i].type = vs[1].type) =>
                   merged.context[key] = ClaimedJoin(vs, Len(vs))

\* C27, as claimed: merge_chunk_results merges the chunks' context maps key by
\* key, in chunk order, without ever failing: for a scalar value the first
\* chunk that writes a key wins, for a list value the later chunks' elements
\* are appended in chunk order, for a map value the later chunks' entries are
\* merged in with duplicate keys overwritten; an empty chunk-result list
\* yields an empty structure.
C27_AsClaimed ==
    [][IF merges = 0 /\ merges' = 1
       THEN IF chunk_results = <<>> THEN merged_result'.empty
            ELSE IF merged_result'.raised # "" THEN FALSE
            ELSE ContextAsClaimed(chunk_results, merged_result', "notes")
       ELSE TRUE]_vars

(***************************************************************************)
(* Properties of _find_break_point (checked under BreakSpec).              *)
(***************************************************************************)
\* the positions just after the matches of tier k in the window of
\* max_search // 2 characters on each side of target_pos, clipped to the text
TierEnds(text, target_pos, max_search, k) ==
    LET lo == Max(0, target_pos - max_search \div 2)
        hi == Min(text.len, target_pos + max_search \div 2)
    IN  {lo + m + break_patterns[k].offset :
           m \in MatchStarts(Slice(text, lo, hi), break_patterns[k].pat)}

\* pos is what the tie-break contract asks for when a match qualifies by
\* standing fewer than tolerance characters from target_pos: the end of a
\* closest match of the first tier with a qualifying match, or target_pos when
\* no tier has one
ByPriority(text, target_pos, max_search, tolerance, pos) ==
    LET Near(k) == {e \in TierEnds(text, target_pos, max_search, k) :
                      Abs(e - target_pos) < tolerance}
        tiers == {k \in DOMAIN break_patterns : Near(k) # {}}
    IN  IF tiers = {}
        THEN pos = target_pos
        ELSE LET k == CHOOSE x \in tiers : \A y \in tiers : x <= y
             IN  /\ pos \in Near(k)
                 /\ \A e \in Near(k) :
                       Abs(pos - target_pos) <= Abs(e - target_pos)

Occurrences(ids, id) == Cardinality({i \in DOMAIN ids : ids[i] = id})

\* every node is stored under its own id; every non-root id stands exactly
\* once in the children list of its parent, one level above it, and in no
\* other children list; from every node the parent links lead to a root
\* without coming back to a node; every role is one of valid_roles
WellFormedTree ==
    /\ \A t \in DOMAIN spawn_tree : spawn_tree[t].task_id = t
    /\ \A t \in (DOMAIN spawn_tree) \ root_tasks :
          LET p == spawn_tree[t].parent_task_id
          IN  /\ p \in DOMAIN spawn_tree
              /\ spawn_tree[t].depth = spawn_tree[p].depth + 1
              /\ \A q \in DOMAIN spawn_tree :
                    Occurrences(spawn_tree[q].children, t) =
                        IF q = p THEN 1 ELSE 0
    /\ \A t \in DOMAIN spawn_tree :
          WalkParents(t, <<>>, Cardinality(DOMAIN spawn_tree) + 1).returns
    /\ \A t \in DOMAIN spawn_tree : spawn_tree[t].role \in valid_roles

\* C29: when register_spawn(p, c, r) is only called right after
\* validate_spawn_request(p, c, r) returned valid on the same state, and roots
\* are registered with roles of the fixed role set, every register_spawn call
\* returns true and its child id was not in the tree, and in every reachable
\* state ids are unique, every non-root id stands exactly once in exactly one
\* children list, its parent's, depth(child) = depth(parent) + 1, the parent
\* relation is acyclic and every node's role is in the role set.
C29_PreValidated ==
    /\ []WellFormedTree
    /\ [][IF call'.op = "register_spawn"
          THEN /\ call'.ret
               /\ call'.child_task_id \notin DOMAIN spawn_tree
               /\ call'.child_task_id \in DOMAIN spawn_tree'
          ELSE TRUE]_vars

\* C29 witness: a validated register_spawn has just put a grandchild under a
\* root's child
C29_Witness ==
    /\ call.op = "register_spawn"
    /\ call.ret
    /\ spawn_tree[call.child_task_id].depth = 2
    /\ spawn_tree[call.parent_task_id].children = <<call.child_task_id>>
    /\ spawn_tree[call.parent_task_id].parent_task_id \in root_tasks
    /\ WellFormedTree

(***************************************************************************)
(* Properties of the end-to-end scenario (checked under PipelineSpec).     *)
(***************************************************************************)
\* the merged tasks are, chunk after chunk, the tasks the chunk was compiled
\* to, each id prefixed with chunk<i>_ for the chunk's index i
PrefixedByChunk ==
    LET per == Len(merged_result.tasks) \div Len(self_chunks)
    IN  /\ Len(merged_result.tasks) = per * Len(self_chunks)
        /\ \A k \in DOMAIN merged_result.tasks :
              LET i == (k - 1) \div per
              IN  /\ merged_result.tasks[k].chunk_id = i
                  /\ StartsWith(merged_result.tasks[k].id,
                                ChunkWord \o DecimalString(i) \o <<"_">>)

\* C25, as claimed: with the default configuration a text of 156,000
\* characters (120,000 estimated tokens) makes should_chunk true and
\* create_chunks return at least 2 chunks; when one result per chunk is
\* merged, every merged task id is prefixed with chunk<i>_ for its chunk's
\* index i; and calculate on the merged graph returns a score whose input-size
\* factor is 0.8, from the 156,000 characters of the original in the merged
\* graph.
C25_AsClaimed ==
    /\ estimate_tokens(prompt) = 120000
    /\ chunk_needed.asked => chunk_needed.answer
    /\ cpc = "done" => Len(self_chunks) >= 2
    /\ merges = 1 =>
          /\ merged_result.raised = ""
          /\ merged_result.original.len = 156000
          /\ PrefixedByChunk
    /\ (dpc = "done" /\ original_len # 0) => depth_result.kind = "score"
    /\ complexity # NoComplexity =>
          /\ complexity.kind = "score"
          /\ complexity.factors.input_size = 8

=============================================================================
